---- MODULE Spec2Model ----
(***************************************************************************)
(* Tamper-evident audit journal of secure-bank-manager (src/src/audit_     *)
(* logger.py, src/src/models.py, src/src/db.py).                          *)
(*                                                                         *)
(* Strings are sequences of integers.  SHA-256 and HMAC-SHA256 are taken   *)
(* as collision free: a digest is its input behind a tag, so two digests   *)
(* are equal exactly when their inputs are.  Time is counted in ticks;     *)
(* TicksPerSec ticks make a second (the sub-second part is what            *)
(* replace(microsecond=0) removes) and SecPerDay seconds make a day.       *)
(***************************************************************************)
EXTENDS Integers, Sequences, FiniteSets, TLC

\* ---------------------------------------------------------------- bounds
MaxCalls == 3
MaxClock == 2
TicksPerSec == 2
SecPerDay == 1
MaxFaults == 1

Procs == {1, 2}

\* ------------------------------------------------------- sequence helpers
RECURSIVE Flatten(_)
Flatten(ss) == IF ss = <<>> THEN <<>> ELSE Head(ss) \o Flatten(Tail(ss))

Enc(s) == <<Len(s)>> \o s

IsPrefix(s, t) == Len(s) <= Len(t) /\ SubSeq(t, 1, Len(s)) = s

RemoveAt(s, i) == SubSeq(s, 1, i - 1) \o SubSeq(s, i + 1, Len(s))

\* ------------------------------------------------------------ json module
\* A dict is a sequence of <<key, value>> pairs with distinct keys, in
\* insertion order; None is NoneVal.  A value -1 is an object json cannot
\* serialise.  In a text, 9 opens a dict, 8 is the literal null and 0 is
\* insignificant white space.
NoneVal == [none |-> TRUE, items |-> <<>>]
Dict(items) == [none |-> FALSE, items |-> items]

Truthy(v) == ~v.none /\ v.items # <<>>

Serialisable(v) == \A i \in 1..Len(v.items) : v.items[i][2] # -1

RECURSIVE SortItems(_)
SortItemsUnsorted(items) == items
SortItems(items) ==
    IF items = <<>> THEN <<>>
    ELSE LET m == CHOOSE i \in 1..Len(items) :
                     \A j \in 1..Len(items) : items[i][1] <= items[j][1]
         IN  <<items[m]>> \o SortItems(RemoveAt(items, m))

\* json.dumps(v, ensure_ascii=False, sort_keys=True): default separators
\* ", " and ": " leave white space inside the text.
json_dumps_default(v) ==
    IF v.none THEN <<8>>
    ELSE <<9>> \o Flatten([i \in 1..Len(v.items) |->
                  <<SortItems(v.items)[i][1], 0, SortItems(v.items)[i][2]>>])

\* json.dumps(v, ensure_ascii=False, sort_keys=True, separators=(",", ":"))
json_dumps_compact(v) ==
    IF v.none THEN <<8>>
    ELSE <<9>> \o Flatten([i \in 1..Len(v.items) |->
                  <<SortItems(v.items)[i][1], SortItems(v.items)[i][2]>>])

Strip(text) == SelectSeq(text, LAMBDA c : c # 0)

\* json.loads raises on a text that is no JSON value.
WellFormed(text) ==
    LET t == Strip(text)
    IN  \/ t = <<8>>
        \/ /\ Len(t) >= 1
           /\ t[1] = 9
           /\ (Len(t) - 1) % 2 = 0
           /\ \A i \in 2..Len(t) : t[i] \in 1..7

\* On a repeated key the last value wins and the key keeps its first place.
RECURSIVE LoadItems(_, _)
LoadItems(t, acc) ==
    IF t = <<>> THEN acc
    ELSE LET k == t[1]
             v == t[2]
             at == {i \in 1..Len(acc) : acc[i][1] = k}
         IN  IF at = {}
             THEN LoadItems(SubSeq(t, 3, Len(t)), Append(acc, <<k, v>>))
             ELSE LoadItems(SubSeq(t, 3, Len(t)),
                            [acc EXCEPT ![CHOOSE i \in at : TRUE] = <<k, v>>])

json_loads(text) ==
    LET t == Strip(text)
    IN  IF t = <<8>> THEN NoneVal ELSE Dict(LoadItems(Tail(t), <<>>))

\* ---------------------------------------------------------- configuration
GENESIS_HASH == <<0>>
HMAC_SECRET_KEY == <<5>>

\* ------------------------------------------------------- hash/hmac engine
calculer_hash(data) == <<1>> \o data

calculer_hmac(data) == <<2>> \o Enc(HMAC_SECRET_KEY) \o data

\* ------------------------------------------------------ canonical encoder
\* audit_payload dumped with sorted keys: action, cible, details,
\* hash_precedent, timestamp, utilisateur_id.
canonical_json(horodatage, utilisateur_id, action, cible, details, hash_precedent) ==
    <<action, cible>> \o Enc(json_dumps_compact(details)) \o Enc(hash_precedent)
        \o <<horodatage, utilisateur_id>>

\* details_json = json.dumps(details, ...) if details else None; the empty
\* text stands for None.
details_json(details) ==
    IF Truthy(details) THEN json_dumps_default(details) ELSE <<>>

\* details column -> the "details" member of audit_payload:
\* json.loads(text) if text else None
PayloadDetails(text) == IF text # <<>> THEN json_loads(text) ELSE NoneVal

DetailsLoadable(text) == text = <<>> \/ WellFormed(text)

RowCanonical(log) ==
    canonical_json(log.horodatage, log.utilisateur_id, log.action, log.cible,
                   PayloadDetails(log.details), log.hash_precedent)

\* --------------------------------------------------------- ledger verifier
CheckErrorsNoChain(log, hash_attendu_precedent) ==
    (IF log.hash_actuel # calculer_hash(RowCanonical(log))
        THEN <<"hash_invalide">> ELSE <<>>)
    \o (IF log.signature_hmac # calculer_hmac(RowCanonical(log))
        THEN <<"hmac_invalide">> ELSE <<>>)

\* The three checks of one loop turn, in the order of the code.
CheckErrors(log, hash_attendu_precedent) ==
    (IF log.hash_precedent # hash_attendu_precedent
        THEN <<"rupture_precedent">> ELSE <<>>)
    \o (IF log.hash_actuel # calculer_hash(RowCanonical(log))
        THEN <<"hash_invalide">> ELSE <<>>)
    \o (IF log.signature_hmac # calculer_hmac(RowCanonical(log))
        THEN <<"hmac_invalide">> ELSE <<>>)

\* status is overwritten by each failed check: the last one wins.
StatusOf(errs) ==
    IF errs = <<>> THEN "ok"
    ELSE IF errs[Len(errs)] = "rupture_precedent" THEN "broken_precedent"
    ELSE IF errs[Len(errs)] = "hash_invalide" THEN "bad_hash"
    ELSE "bad_hmac"

\* "Mise à jour pour le prochain tour": the stored hash, never the recomputed.
NextAttenduRecomputed(log) == calculer_hash(RowCanonical(log))
NextAttendu(log) == log.hash_actuel

\* for log in logs: ... of verifier_integrite.  json.loads of an unparsable
\* details text raises out of the loop and out of the function.
RECURSIVE IntegriteLoop(_, _, _, _)
IntegriteLoop(logs, i, hash_attendu_precedent, erreurs) ==
    IF i > Len(logs) THEN [raised |-> FALSE, erreurs |-> erreurs]
    ELSE IF ~DetailsLoadable(logs[i].details)
         THEN [raised |-> TRUE, erreurs |-> <<>>]
    ELSE LET errs == CheckErrors(logs[i], hash_attendu_precedent)
         IN  IntegriteLoop(logs, i + 1, NextAttendu(logs[i]),
                 erreurs \o [k \in 1..Len(errs) |-> <<logs[i].id, errs[k]>>])

verifier_integriteDepuisPremier(logs) ==
    LET r == IntegriteLoop(logs, 1,
                 IF logs = <<>> THEN GENESIS_HASH ELSE logs[1].hash_precedent,
                 <<>>)
    IN  [raised |-> r.raised,
         valide |-> ~r.raised /\ Len(r.erreurs) = 0,
         erreurs |-> r.erreurs]

\* (est_valide, erreurs); raised stands for the exception leaving the call.
verifier_integrite(logs) ==
    LET r == IntegriteLoop(logs, 1, GENESIS_HASH, <<>>)
    IN  [raised |-> r.raised,
         valide |-> ~r.raised /\ Len(r.erreurs) = 0,
         erreurs |-> r.erreurs]

RECURSIVE DetailedLoop(_, _, _, _, _)
DetailedLoop(logs, i, hash_attendu_precedent, entries, errors) ==
    IF i > Len(logs)
    THEN [raised |-> FALSE, entries |-> entries, errors |-> errors]
    ELSE IF ~DetailsLoadable(logs[i].details)
         THEN [raised |-> TRUE, entries |-> <<>>, errors |-> <<>>]
    ELSE LET log == logs[i]
             entry_errors == CheckErrors(log, hash_attendu_precedent)
         IN  DetailedLoop(logs, i + 1, NextAttendu(log),
                 Append(entries,
                     [id |-> log.id,
                      horodatage |-> log.horodatage,
                      utilisateur_id |-> log.utilisateur_id,
                      action |-> log.action,
                      cible |-> log.cible,
                      details |-> PayloadDetails(log.details),
                      hash_precedent |-> log.hash_precedent,
                      hash_actuel |-> log.hash_actuel,
                      signature_hmac |-> log.signature_hmac,
                      status |-> StatusOf(entry_errors),
                      errors |-> entry_errors]),
                 errors \o [k \in 1..Len(entry_errors) |->
                               <<log.id, entry_errors[k]>>])

\* {'valid': ..., 'entries': ..., 'errors': ...}, over the rows the query
\* returned.
verifier_integrite_detailed(logs) ==
    LET r == DetailedLoop(logs, 1, GENESIS_HASH, <<>>, <<>>)
    IN  [raised |-> r.raised,
         valid |-> ~r.raised /\ Len(r.errors) = 0,
         entries |-> r.entries,
         errors |-> r.errors]

\* session.query(Journal).order_by(Journal.id).all(): one statement, which
\* sees the committed rows of one instant.
QueryAllUncommitted(rows, pending) == rows \o pending
QueryAll(rows, pending) == rows

\* ------------------------------------------------------------------ state
VARIABLES
    journal,         \* committed rows of table journaux, ordered by id
    pc,              \* where each request thread stands
    args,            \* log_action: the call's arguments, details_json, horodatage
    hash_precedent,  \* log_action: the tail hash read at step 2
    staged,          \* log_action: the row inserted and not yet committed
    writer,          \* the thread holding SQLite's write lock, 0 if none
    result,          \* the last value log_action returned to each thread
    clock,           \* datetime.utcnow(), in ticks
    logs,            \* verifier: the rows its query returned
    clotures,        \* committed rows of table clotures_journaux, ordered by id
    nouvelle_cloture,\* cloturer_journee: the row built at step 5
    cl_result,       \* the last outcome cloturer_journee returned to each thread
    date_cloture,    \* cloturer_journee: the day the call in progress is closing
    clotures_lues,   \* verifier_clotures: the rows its query returned
    started,         \* history: log_action calls made
    overlapped,      \* history: some log_action call ran while another did
    faults,          \* history: storage failures and lock timeouts met
    tamper,          \* history: the edit made to the table behind the application
    orig,            \* history: the journal as it stood before that edit
    enc_in,          \* canonical encoder: the two events given to it
    enc_out,         \* canonical encoder: their canonical strings, once encoded
    demandes,        \* rows of table operations_en_attente, ordered by id
    solde,           \* the balance of the account the requests withdraw from
    mc_retour,       \* maker-checker: the last call and the success it returned
    utilisateurs,    \* rows of table utilisateurs, by id
    session_user,    \* flask session of each browser: its user_id, 0 if none
    minutes,         \* datetime.utcnow() of the login requests, in minutes
    login_retour,    \* login: the last POST and whether it opened a session
    client_statut,   \* Client.statut of the account's holder
    compte_statut,   \* Compte.statut of the account
    autres_comptes,  \* further accounts opened for the same client
    operations,      \* committed rows of table operations, ordered by id
    bank_retour,     \* the last bank request and whether it took effect
    op_pc,           \* effectuer_operation: where each thread's call stands
    op_args,         \* effectuer_operation: the call's arguments
    pending,         \* each thread's session: changes not yet committed
    op_retour,       \* effectuer_operation: the success flag it returned
    op_succes,       \* history: deposits less withdrawals of the calls that returned success
    dec_pc,          \* maker-checker decision: where each thread's call stands
    dec_args,        \* maker-checker decision: the call and the row it read
    dec_retour,      \* maker-checker decision: the success flag it returned
    chain_in,        \* verifier_chain: the report the verifier handed to it
    chain_out        \* verifier_chain: the summary built from it

logvars == <<args, hash_precedent, staged, result, started, overlapped, faults>>
clvars == <<clotures, nouvelle_cloture, cl_result, date_cloture, clotures_lues>>
tvars == <<tamper, orig>>

encvars == <<enc_in, enc_out>>
mcvars == <<demandes, solde, mc_retour>>
authvars == <<utilisateurs, session_user, minutes, login_retour>>
bankvars == <<client_statut, compte_statut, autres_comptes, operations,
              bank_retour>>
opvars == <<op_pc, op_args, pending, op_retour, op_succes>>
decvars == <<dec_pc, dec_args, dec_retour>>
chainvars == <<chain_in, chain_out>>
appvars == <<encvars, mcvars, authvars, bankvars, opvars, decvars, chainvars>>

vars == <<journal, pc, writer, clock, logs, logvars, clvars, tvars, appvars>>

\* The events the callers record: utilisateur_id 0 and cible 0 stand for None.
Events ==
    { [utilisateur_id |-> 1, action |-> 1, cible |-> 0, details |-> NoneVal],
      [utilisateur_id |-> 1, action |-> 2, cible |-> 1,
       details |-> Dict(<< <<2, 1>>, <<1, 1>> >>)],
      [utilisateur_id |-> 0, action |-> 1, cible |-> 0, details |-> Dict(<<>>)],
      [utilisateur_id |-> 2, action |-> 2, cible |-> 1,
       details |-> Dict(<< <<1, -1>> >>)] }

NoArgs == [utilisateur_id |-> 0, action |-> 0, cible |-> 0, details |-> <<>>,
           horodatage |-> 0]

LogStates == {"read", "insert", "commit", "except"}

\* No cloturer_journee call in progress.
NoDate == 0 - 1

NoTamper == [kind |-> "none", pos |-> 0, field |-> "none"]

\* datetime.utcnow().replace(microsecond=0)
TruncateNoop(t) == t
Truncate(t) == t - (t % TicksPerSec)

\* Journal(...) of step 5, with the id SQLite gives an INTEGER PRIMARY KEY.
NextId(rows) == IF rows = <<>> THEN 1 ELSE rows[Len(rows)].id + 1

NouveauLogDetailsText(p, rows) ==
    LET a == args[p]
        c == <<a.action, a.cible>> \o Enc(a.details) \o Enc(hash_precedent[p])
                 \o <<a.horodatage, a.utilisateur_id>>
    IN  [id |-> NextId(rows),
         horodatage |-> a.horodatage,
         utilisateur_id |-> a.utilisateur_id,
         action |-> a.action,
         cible |-> a.cible,
         details |-> a.details,
         hash_precedent |-> hash_precedent[p],
         hash_actuel |-> calculer_hash(c),
         signature_hmac |-> calculer_hmac(c)]

NouveauLog(p, rows) ==
    LET a == args[p]
        c == canonical_json(a.horodatage, a.utilisateur_id, a.action, a.cible,
                            PayloadDetails(a.details), hash_precedent[p])
    IN  [id |-> NextId(rows),
         horodatage |-> a.horodatage,
         utilisateur_id |-> a.utilisateur_id,
         action |-> a.action,
         cible |-> a.cible,
         details |-> a.details,
         hash_precedent |-> hash_precedent[p],
         hash_actuel |-> calculer_hash(c),
         signature_hmac |-> calculer_hmac(c)]

DernierLogFirst(rows) == IF rows = <<>> THEN <<>> ELSE <<rows[1]>>

\* session.query(Journal).order_by(desc(Journal.id)).with_for_update().first()
\* SQLite has no FOR UPDATE: the statement is a plain SELECT of committed rows.
DernierLog(rows) == IF rows = <<>> THEN <<>> ELSE <<rows[Len(rows)]>>

InitLedger ==
    /\ journal = <<>>
    /\ pc = [p \in Procs |-> "idle"]
    /\ args = [p \in Procs |-> NoArgs]
    /\ hash_precedent = [p \in Procs |-> <<>>]
    /\ staged = [p \in Procs |-> <<>>]
    /\ writer = 0
    /\ result = [p \in Procs |-> FALSE]
    /\ clock = 0
    /\ logs = [p \in Procs |-> <<>>]
    /\ clotures = <<>>
    /\ nouvelle_cloture = [p \in Procs |-> <<>>]
    /\ cl_result = [p \in Procs |-> "none"]
    /\ date_cloture = [p \in Procs |-> NoDate]
    /\ clotures_lues = [p \in Procs |-> <<>>]
    /\ started = 0
    /\ overlapped = FALSE
    /\ faults = 0
    /\ tamper = NoTamper
    /\ orig = <<>>

\* ------------------------------------------------------ canonical encoder
\* One event as log_action receives it, with the second it was recorded at
\* and the tail hash it links to.
EncInputs ==
    [horodatage : {0, TicksPerSec},
     utilisateur_id : {0, 1},
     action : {1},
     cible : {0},
     details : {NoneVal, Dict(<<>>), Dict(<< <<1, 2>> >>),
                Dict(<< <<1, 1>>, <<2, 1>> >>), Dict(<< <<2, 1>>, <<1, 1>> >>)},
     hash_precedent : {GENESIS_HASH}]

\* Steps 1, 3 and 4 of log_action: from the event to its canonical string.
encode_event(e) ==
    canonical_json(e.horodatage, e.utilisateur_id, e.action, e.cible,
                   PayloadDetails(details_json(e.details)), e.hash_precedent)

InitEnc ==
    /\ enc_in = <<>>
    /\ enc_out = <<>>

\* ----------------------------------------------------------- maker-checker
MC_Users == {1, 2}

RETRAIT_MAXIMUM == 500
SOLDE_MINIMUM_COMPTE == 0

\* The account's opening balance and the amount every request withdraws.
SoldeInitial == 500
Montant == 350

MaxDemandes == 2
MaxMcJournal == 4

NoRetour == [op |-> "none", id |-> 0, user |-> 0, ok |-> FALSE]

InitMc ==
    /\ demandes = <<>>
    /\ solde = SoldeInitial
    /\ mc_retour = NoRetour

\* ------------------------------------------------------------------- login
MAX_LOGIN_ATTEMPTS == 5
LOCKOUT_MINUTES == 15

MaxMinutes == 16
MaxAuthJournal == 6

\* verrouille_jusqu_a is None.
NoLock == 0 - 1

\* What the last request to /auth/login or /auth/logout did.
NoLogin == [username |-> 0, password_ok |-> FALSE, refused |-> FALSE,
            opened |-> FALSE]

\* User 1 is active, user 2 was deactivated; username 3 is nobody's.
InitAuth ==
    /\ utilisateurs = [u \in {1, 2} |->
           [is_active |-> u = 1,
            tentatives_connexion |-> 0,
            verrouille_jusqu_a |-> NoLock,
            verrouille_raison |-> "",
            verrouille_le |-> NoLock]]
    /\ session_user = 0
    /\ minutes = 0
    /\ login_retour = NoLogin

\* ------------------------------------------------------------------- bank
SOLDE_MINIMUM_INITIAL == 250

\* Default of policy velocity.retrait.max_par_minute; velocity.actif is true.
velocity_retrait_max_par_minute == 3

MaxAutresComptes == 1
MaxOperations == 4
MaxBankJournal == 5
MaxDemandesGuichet == 1

\* A small withdrawal, several of which fit in the opening balance.
PetitMontant == 100

NoBankRetour == [op |-> "none", ok |-> FALSE]
NoOpArgs == [type_op |-> "none", montant |-> 0, solde_avant |-> 0, log |-> "none"]
NoPending == [solde |-> 0 - 1, rows |-> <<>>, flushed |-> FALSE]

\* One active client holding one active account.
InitBank ==
    /\ client_statut = "actif"
    /\ compte_statut = "actif"
    /\ autres_comptes = 0
    /\ operations = <<>>
    /\ bank_retour = NoBankRetour
    /\ op_pc = [p \in Procs |-> "idle"]
    /\ op_args = [p \in Procs |-> NoOpArgs]
    /\ pending = [p \in Procs |-> NoPending]
    /\ op_retour = [p \in Procs |-> "none"]
    /\ op_succes = 0
    /\ dec_pc = [p \in Procs |-> "idle"]
    /\ dec_args = [p \in Procs |-> [op |-> "none", id |-> 0, user |-> 0]]
    /\ dec_retour = [p \in Procs |-> [id |-> 0, ok |-> FALSE]]

\* ----------------------------------------------------------- chain summary
\* Entries a report given to verifier_chain may hold.
MaxEntries == 6

\* No page asked for yet.
NoSummary == [n |-> 0 - 1]

InitChain ==
    /\ chain_in = [valid |-> TRUE, entries |-> <<>>, errors |-> <<>>]
    /\ chain_out = NoSummary

Init == InitLedger /\ InitEnc /\ InitMc /\ InitAuth /\ InitBank /\ InitChain

\* ------------------------------------------------------------- log_action
\* Step 1: details_json and horodatage; json.dumps raises on a value it
\* cannot serialise.
LogStart(p, ev) ==
    /\ pc[p] = "idle"
    /\ started < MaxCalls
    /\ started' = started + 1
    /\ overlapped' = (overlapped \/ \E q \in Procs \ {p} : pc[q] \in LogStates)
    /\ IF Truthy(ev.details) /\ ~Serialisable(ev.details)
       THEN /\ pc' = [pc EXCEPT ![p] = "except"]
            /\ args' = [args EXCEPT ![p] = NoArgs]
       ELSE /\ pc' = [pc EXCEPT ![p] = "read"]
            /\ args' = [args EXCEPT ![p] =
                 [utilisateur_id |-> ev.utilisateur_id,
                  action |-> ev.action,
                  cible |-> ev.cible,
                  details |-> details_json(ev.details),
                  horodatage |-> Truncate(clock)]]
    /\ UNCHANGED <<journal, hash_precedent, staged, writer, result, clock, faults,
                   logs, clvars, tvars, appvars>>

\* Step 2: the tail hash, or the genesis sentinel on an empty journal.
LogReadTail(p) ==
    /\ pc[p] = "read"
    /\ hash_precedent' = [hash_precedent EXCEPT ![p] =
           IF DernierLog(journal) # <<>>
           THEN DernierLog(journal)[1].hash_actuel ELSE GENESIS_HASH]
    /\ pc' = [pc EXCEPT ![p] = "insert"]
    /\ UNCHANGED <<journal, args, staged, writer, result, clock, started,
                   overlapped, faults, logs, clvars, tvars, appvars>>

LogInsertNoUnique(p) ==
    /\ pc[p] = "insert"
    /\ writer = 0
    /\ pc' = [pc EXCEPT ![p] = "commit"]
    /\ staged' = [staged EXCEPT ![p] = <<NouveauLog(p, journal)>>]
    /\ writer' = p
    /\ UNCHANGED <<journal, args, hash_precedent, result, clock, started,
                   overlapped, faults, logs, clvars, tvars, appvars>>

\* Steps 3-5 and the flush of session.commit(): the INSERT takes the write
\* lock; hash_actuel is UNIQUE.
LogInsert(p) ==
    /\ pc[p] = "insert"
    /\ writer = 0
    /\ LET row == NouveauLog(p, journal)
       IN  IF \E i \in 1..Len(journal) : journal[i].hash_actuel = row.hash_actuel
           THEN /\ pc' = [pc EXCEPT ![p] = "except"]
                /\ UNCHANGED <<staged, writer>>
           ELSE /\ pc' = [pc EXCEPT ![p] = "commit"]
                /\ staged' = [staged EXCEPT ![p] = <<row>>]
                /\ writer' = p
    /\ UNCHANGED <<journal, args, hash_precedent, result, clock, started,
                   overlapped, faults, logs, clvars, tvars, appvars>>

LogCommitOverTail(p) ==
    /\ pc[p] = "commit"
    /\ journal' = IF journal = <<>> THEN staged[p]
                  ELSE [journal EXCEPT ![Len(journal)] = staged[p][1]]
    /\ staged' = [staged EXCEPT ![p] = <<>>]
    /\ writer' = 0
    /\ result' = [result EXCEPT ![p] = TRUE]
    /\ pc' = [pc EXCEPT ![p] = "idle"]
    /\ args' = [args EXCEPT ![p] = NoArgs]
    /\ hash_precedent' = [hash_precedent EXCEPT ![p] = <<>>]
    /\ UNCHANGED <<clock, started, overlapped, faults, logs, clvars, tvars, appvars>>

\* COMMIT, then return True.
LogCommit(p) ==
    /\ pc[p] = "commit"
    /\ journal' = journal \o staged[p]
    /\ staged' = [staged EXCEPT ![p] = <<>>]
    /\ writer' = 0
    /\ result' = [result EXCEPT ![p] = TRUE]
    /\ pc' = [pc EXCEPT ![p] = "idle"]
    /\ args' = [args EXCEPT ![p] = NoArgs]
    /\ hash_precedent' = [hash_precedent EXCEPT ![p] = <<>>]
    /\ UNCHANGED <<clock, started, overlapped, faults, logs, clvars, tvars, appvars>>

LogLockWait(p) ==
    /\ pc[p] = "insert"
    /\ writer \notin {0, p}
    /\ UNCHANGED vars

\* The INSERT finds the write lock held until sqlite3's busy timeout runs
\* out: OperationalError (database is locked).
LogLockTimeout(p) ==
    /\ pc[p] = "insert"
    /\ writer \notin {0, p}
    /\ faults' = faults + 1
    /\ pc' = [pc EXCEPT ![p] = "except"]
    /\ UNCHANGED <<journal, args, hash_precedent, staged, writer, result, clock,
                   started, overlapped, logs, clvars, tvars, appvars>>

\* Any other exception raised by the storage while reading, inserting or
\* committing.
LogStorageFailure(p) ==
    /\ pc[p] \in {"read", "insert", "commit"}
    /\ faults < MaxFaults
    /\ faults' = faults + 1
    /\ pc' = [pc EXCEPT ![p] = "except"]
    /\ UNCHANGED <<journal, args, hash_precedent, staged, writer, result, clock,
                   started, overlapped, logs, clvars, tvars, appvars>>

LogExceptNoRollback(p) ==
    /\ pc[p] = "except"
    /\ journal' = journal \o staged[p]
    /\ staged' = [staged EXCEPT ![p] = <<>>]
    /\ writer' = IF writer = p THEN 0 ELSE writer
    /\ result' = [result EXCEPT ![p] = FALSE]
    /\ pc' = [pc EXCEPT ![p] = "idle"]
    /\ args' = [args EXCEPT ![p] = NoArgs]
    /\ hash_precedent' = [hash_precedent EXCEPT ![p] = <<>>]
    /\ UNCHANGED <<clock, started, overlapped, faults, logs, clvars, tvars, appvars>>

\* except Exception: session.rollback(); return False
LogExcept(p) ==
    /\ pc[p] = "except"
    /\ staged' = [staged EXCEPT ![p] = <<>>]
    /\ writer' = IF writer = p THEN 0 ELSE writer
    /\ result' = [result EXCEPT ![p] = FALSE]
    /\ pc' = [pc EXCEPT ![p] = "idle"]
    /\ args' = [args EXCEPT ![p] = NoArgs]
    /\ hash_precedent' = [hash_precedent EXCEPT ![p] = <<>>]
    /\ UNCHANGED <<journal, clock, started, overlapped, faults, logs, clvars, tvars, appvars>>

\* ------------------------------------------------- verification requests
\* verifier_integrite / verifier_integrite_detailed: the query, then the
\* loop over the rows it returned.
VerifyRead(p, detailed) ==
    /\ pc[p] = "idle"
    /\ logs' = [logs EXCEPT ![p] = QueryAll(journal, Flatten([q \in Procs |-> staged[q]]))]
    /\ pc' = [pc EXCEPT ![p] = IF detailed THEN "verif_d" ELSE "verif"]
    /\ UNCHANGED <<journal, writer, clock, logvars, clvars, tvars, appvars>>

VerifyReturn(p) ==
    /\ pc[p] \in {"verif", "verif_d"}
    /\ pc' = [pc EXCEPT ![p] = "idle"]
    /\ logs' = [logs EXCEPT ![p] = <<>>]
    /\ UNCHANGED <<journal, writer, clock, logvars, clvars, tvars, appvars>>

\* ---------------------------------------------------------- daily closure
DateOf(horodatage) == horodatage \div (TicksPerSec * SecPerDay)

Dates == 0..DateOf(MaxClock)

payload_clotureNoId(date, dernier_log_id, hash_racine) == <<6, date>> \o hash_racine

\* f"CLOTURE|{date.isoformat()}|{dernier_log_id}|{hash_racine}"
payload_cloture(date, dernier_log_id, hash_racine) ==
    <<6, date, dernier_log_id>> \o hash_racine

\* The last row, by id, whose horodatage lies within the day.
DernierLogDuJour(rows, date) ==
    LET in == {i \in 1..Len(rows) : DateOf(rows[i].horodatage) = date}
    IN  IF in = {} THEN <<>>
        ELSE <<rows[CHOOSE i \in in : \A j \in in : j <= i]>>

\* cloturer_journee(date_cloture): the call, with the day to close.
ClotureStart(p, date) ==
    /\ pc[p] = "idle"
    /\ date_cloture' = [date_cloture EXCEPT ![p] = date]
    /\ pc' = [pc EXCEPT ![p] = "cl_query"]
    /\ UNCHANGED <<journal, writer, clock, logs, logvars, clotures,
                   nouvelle_cloture, cl_result, clotures_lues, tvars, appvars>>

ClotureQueryNoCheck(p) ==
    /\ pc[p] = "cl_query"
    /\ LET date == date_cloture[p]
       IN  IF DernierLogDuJour(journal, date) = <<>>
           THEN /\ cl_result' = [cl_result EXCEPT ![p] = "aucun_log"]
                /\ pc' = [pc EXCEPT ![p] = "idle"]
                /\ date_cloture' = [date_cloture EXCEPT ![p] = NoDate]
                /\ UNCHANGED nouvelle_cloture
           ELSE LET dernier_log == DernierLogDuJour(journal, date)[1]
                IN  /\ nouvelle_cloture' = [nouvelle_cloture EXCEPT ![p] =
                         << [id |-> 0,
                             date |-> date,
                             dernier_log_id |-> dernier_log.id,
                             hash_racine |-> dernier_log.hash_actuel,
                             signature_hmac |-> calculer_hmac(payload_cloture(date,
                                 dernier_log.id, dernier_log.hash_actuel))] >>]
                    /\ pc' = [pc EXCEPT ![p] = "cl_insert"]
                    /\ UNCHANGED <<cl_result, date_cloture>>
    /\ UNCHANGED <<journal, writer, clock, logs, logvars, clotures,
                   clotures_lues, tvars, appvars>>

\* Steps 1-5: the two queries and the row to insert.
ClotureQuery(p) ==
    /\ pc[p] = "cl_query"
    /\ LET date == date_cloture[p]
       IN  IF \E i \in 1..Len(clotures) : clotures[i].date = date
           THEN /\ cl_result' = [cl_result EXCEPT ![p] = "deja_cloturee"]
                /\ pc' = [pc EXCEPT ![p] = "idle"]
                /\ date_cloture' = [date_cloture EXCEPT ![p] = NoDate]
                /\ UNCHANGED nouvelle_cloture
           ELSE IF DernierLogDuJour(journal, date) = <<>>
           THEN /\ cl_result' = [cl_result EXCEPT ![p] = "aucun_log"]
                /\ pc' = [pc EXCEPT ![p] = "idle"]
                /\ date_cloture' = [date_cloture EXCEPT ![p] = NoDate]
                /\ UNCHANGED nouvelle_cloture
           ELSE LET dernier_log == DernierLogDuJour(journal, date)[1]
                IN  /\ nouvelle_cloture' = [nouvelle_cloture EXCEPT ![p] =
                         << [id |-> 0,
                             date |-> date,
                             dernier_log_id |-> dernier_log.id,
                             hash_racine |-> dernier_log.hash_actuel,
                             signature_hmac |-> calculer_hmac(payload_cloture(date,
                                 dernier_log.id, dernier_log.hash_actuel))] >>]
                    /\ pc' = [pc EXCEPT ![p] = "cl_insert"]
                    /\ UNCHANGED <<cl_result, date_cloture>>
    /\ UNCHANGED <<journal, writer, clock, logs, logvars, clotures,
                   clotures_lues, tvars, appvars>>

ClotureCommitNoUnique(p) ==
    /\ pc[p] = "cl_insert"
    /\ writer = 0
    /\ clotures' = Append(clotures,
           [nouvelle_cloture[p][1] EXCEPT !.id = Len(clotures) + 1])
    /\ cl_result' = [cl_result EXCEPT ![p] = "ok"]
    /\ pc' = [pc EXCEPT ![p] = "idle"]
    /\ nouvelle_cloture' = [nouvelle_cloture EXCEPT ![p] = <<>>]
    /\ date_cloture' = [date_cloture EXCEPT ![p] = NoDate]
    /\ UNCHANGED <<journal, writer, clock, logs, logvars, clotures_lues, tvars, appvars>>

\* session.add, session.commit: date is UNIQUE; on IntegrityError the except
\* branch rolls back and returns (False, "Erreur de clôture").
ClotureCommit(p) ==
    /\ pc[p] = "cl_insert"
    /\ writer = 0
    /\ IF \E i \in 1..Len(clotures) : clotures[i].date = nouvelle_cloture[p][1].date
       THEN /\ cl_result' = [cl_result EXCEPT ![p] = "erreur"]
            /\ UNCHANGED clotures
       ELSE /\ clotures' = Append(clotures,
                 [nouvelle_cloture[p][1] EXCEPT !.id = Len(clotures) + 1])
            /\ cl_result' = [cl_result EXCEPT ![p] = "ok"]
    /\ pc' = [pc EXCEPT ![p] = "idle"]
    /\ nouvelle_cloture' = [nouvelle_cloture EXCEPT ![p] = <<>>]
    /\ date_cloture' = [date_cloture EXCEPT ![p] = NoDate]
    /\ UNCHANGED <<journal, writer, clock, logs, logvars, clotures_lues, tvars, appvars>>

\* for c in clotures: recompute the signature.
verifier_clotures(clots) ==
    LET bad == {i \in 1..Len(clots) :
                  clots[i].signature_hmac #
                    calculer_hmac(payload_cloture(clots[i].date,
                        clots[i].dernier_log_id, clots[i].hash_racine))}
    IN  [valide |-> bad = {}, ids_invalides |-> {clots[i].id : i \in bad}]

\* session.query(ClotureJournal).order_by(ClotureJournal.date).all()
QueryClotures(rows) ==
    LET RECURSIVE Sorted(_)
        Sorted(rs) ==
            IF rs = <<>> THEN <<>>
            ELSE LET m == CHOOSE i \in 1..Len(rs) :
                             \A j \in 1..Len(rs) : rs[i].date <= rs[j].date
                 IN  <<rs[m]>> \o Sorted(RemoveAt(rs, m))
    IN  Sorted(rows)

VerifCloturesRead(p) ==
    /\ pc[p] = "idle"
    /\ clotures # <<>>
    /\ clotures_lues' = [clotures_lues EXCEPT ![p] = QueryClotures(clotures)]
    /\ pc' = [pc EXCEPT ![p] = "verif_cl"]
    /\ UNCHANGED <<journal, writer, clock, logs, logvars, clotures,
                   nouvelle_cloture, cl_result, date_cloture, tvars, appvars>>

VerifCloturesReturn(p) ==
    /\ pc[p] = "verif_cl"
    /\ clotures_lues' = [clotures_lues EXCEPT ![p] = <<>>]
    /\ pc' = [pc EXCEPT ![p] = "idle"]
    /\ UNCHANGED <<journal, writer, clock, logs, logvars, clotures,
                   nouvelle_cloture, cl_result, date_cloture, tvars, appvars>>

Tick ==
    /\ clock < MaxClock
    /\ clock' = clock + 1
    /\ UNCHANGED <<journal, pc, writer, logs, logvars, clvars, tvars, appvars>>

\* Thread 2 also serves the read-only and closure requests.
Verifiers == {2}

LogNext ==
    \/ \E p \in Procs, ev \in Events : LogStart(p, ev)
    \/ \E p \in Procs : LogReadTail(p)
    \/ \E p \in Procs : LogInsert(p)
    \/ \E p \in Procs : LogCommit(p)
    \/ \E p \in Procs : LogLockTimeout(p)
    \/ \E p \in Procs : LogStorageFailure(p)
    \/ \E p \in Procs : LogExcept(p)

VerifyNext ==
    \/ \E p \in Verifiers, detailed \in BOOLEAN : VerifyRead(p, detailed)
    \/ \E p \in Verifiers : VerifyReturn(p)

ClotureNext ==
    \/ \E p \in Verifiers, date \in Dates : ClotureStart(p, date)
    \/ \E p \in Verifiers : ClotureQuery(p)
    \/ \E p \in Verifiers : ClotureCommit(p)
    \/ \E p \in Verifiers : VerifCloturesRead(p)
    \/ \E p \in Verifiers : VerifCloturesReturn(p)

\* Concurrent appends and verification.
Next == LogNext \/ VerifyNext \/ Tick

Spec == Init /\ [][Next]_vars

\* Every request of the application: thread 1 appends, thread 2 verifies
\* and closes days.
Loggers == {1}

AppLogNext ==
    \/ \E p \in Loggers, ev \in Events : LogStart(p, ev)
    \/ \E p \in Loggers : LogReadTail(p)
    \/ \E p \in Loggers : LogInsert(p)
    \/ \E p \in Loggers : LogCommit(p)
    \/ \E p \in Loggers : LogStorageFailure(p)
    \/ \E p \in Loggers : LogExcept(p)

AppNext == AppLogNext \/ VerifyNext \/ ClotureNext \/ Tick

SpecApp == Init /\ [][AppNext]_vars

\* ------------------------------------------- edits behind the application
\* One edit of the table by someone with access to the database file, made
\* while no request is in flight; nothing is appended after it.
SortById(rows) ==
    LET RECURSIVE Sorted(_)
        Sorted(rs) ==
            IF rs = <<>> THEN <<>>
            ELSE LET m == CHOOSE i \in 1..Len(rs) :
                             \A j \in 1..Len(rs) : rs[i].id <= rs[j].id
                 IN  <<rs[m]>> \o Sorted(RemoveAt(rs, m))
    IN  Sorted(rows)

ContentFields ==
    {"horodatage", "utilisateur_id", "action", "cible", "details", "hash_precedent"}

DetailsTexts == { <<>>, <<8>>, <<9, 1, 1, 2, 1>>, <<9, 1, 2>>, <<7>> }

TamperValues(row, field) ==
    CASE field = "horodatage" -> {row.horodatage + 1}
      [] field = "utilisateur_id" -> {row.utilisateur_id + 1}
      [] field = "action" -> {row.action + 1}
      [] field = "cible" -> {row.cible + 1}
      [] field = "details" -> DetailsTexts \ {row.details}
      [] field = "hash_precedent" -> {GENESIS_HASH, <<3>>} \ {row.hash_precedent}
      [] field = "hash_actuel" -> {<<3>>}
      [] field = "signature_hmac" -> {<<4>>}

SetField(row, field, v) ==
    CASE field = "horodatage" -> [row EXCEPT !.horodatage = v]
      [] field = "utilisateur_id" -> [row EXCEPT !.utilisateur_id = v]
      [] field = "action" -> [row EXCEPT !.action = v]
      [] field = "cible" -> [row EXCEPT !.cible = v]
      [] field = "details" -> [row EXCEPT !.details = v]
      [] field = "hash_precedent" -> [row EXCEPT !.hash_precedent = v]
      [] field = "hash_actuel" -> [row EXCEPT !.hash_actuel = v]
      [] field = "signature_hmac" -> [row EXCEPT !.signature_hmac = v]

Quiet == \A p \in Procs : pc[p] = "idle"

TamperField(i, field) ==
    /\ tamper.kind = "none"
    /\ Quiet
    /\ i \in 1..Len(journal)
    /\ \E v \in TamperValues(journal[i], field) :
           journal' = [journal EXCEPT ![i] = SetField(journal[i], field, v)]
    /\ tamper' = [kind |-> "field", pos |-> i, field |-> field]
    /\ orig' = journal
    /\ UNCHANGED <<pc, writer, clock, logs, logvars, clvars, appvars>>

TamperDelete(i) ==
    /\ tamper.kind = "none"
    /\ Quiet
    /\ i \in 1..Len(journal)
    /\ journal' = RemoveAt(journal, i)
    /\ tamper' = [kind |-> "delete", pos |-> i, field |-> "none"]
    /\ orig' = journal
    /\ UNCHANGED <<pc, writer, clock, logs, logvars, clvars, appvars>>

\* Several rows are deleted at once.
TamperDeleteMany(S) ==
    /\ tamper.kind = "none"
    /\ Quiet
    /\ S \subseteq 1..Len(journal)
    /\ Cardinality(S) >= 2
    /\ journal' = SelectSeq(journal, LAMBDA row :
                       \A i \in S : journal[i].id # row.id)
    /\ tamper' = [kind |-> "deletes",
                  pos |-> CHOOSE i \in S : \A j \in S : i <= j,
                  field |-> "none"]
    /\ orig' = journal
    /\ UNCHANGED <<pc, writer, clock, logs, logvars, clvars, appvars>>

\* The row's id is rewritten so that it sorts first or last.
TamperReorder(i, first) ==
    /\ tamper.kind = "none"
    /\ Quiet
    /\ i \in 1..Len(journal)
    /\ i # (IF first THEN 1 ELSE Len(journal))
    /\ journal' = SortById([journal EXCEPT ![i].id =
                     IF first THEN journal[1].id - 1
                     ELSE journal[Len(journal)].id + 1])
    /\ tamper' = [kind |-> "reorder", pos |-> i, field |-> "id"]
    /\ orig' = journal
    /\ UNCHANGED <<pc, writer, clock, logs, logvars, clvars, appvars>>

TamperNext ==
    \/ \E i \in 1..MaxCalls, field \in ContentFields \cup {"hash_actuel", "signature_hmac"} :
          TamperField(i, field)
    \/ \E i \in 1..MaxCalls : TamperDelete(i)
    \/ \E S \in SUBSET (1..MaxCalls) : TamperDeleteMany(S)
    \/ \E i \in 1..MaxCalls, first \in BOOLEAN : TamperReorder(i, first)

TamperLogNext ==
    \/ \E p \in Loggers, ev \in Events : tamper.kind = "none" /\ LogStart(p, ev)
    \/ \E p \in Loggers : LogReadTail(p)
    \/ \E p \in Loggers : LogInsert(p)
    \/ \E p \in Loggers : LogCommit(p)
    \/ \E p \in Loggers : LogExcept(p)

TamperSpecNext == TamperLogNext \/ VerifyNext \/ Tick \/ TamperNext

SpecTamper == Init /\ [][TamperSpecNext]_vars

\* One column of one closure row is rewritten behind the application, the
\* signature not recomputed; no day is closed after it.
ClotureFields == {"date", "dernier_log_id", "hash_racine", "signature_hmac"}

TamperCloture(i, field) ==
    /\ tamper.kind = "none"
    /\ Quiet
    /\ i \in 1..Len(clotures)
    /\ clotures' = [clotures EXCEPT ![i] =
           CASE field = "date" -> [@ EXCEPT !.date = DateOf(MaxClock) + 1]
             [] field = "dernier_log_id" -> [@ EXCEPT !.dernier_log_id = @ + 1]
             [] field = "hash_racine" -> [@ EXCEPT !.hash_racine = <<3>>]
             [] field = "signature_hmac" -> [@ EXCEPT !.signature_hmac = <<4>>]]
    /\ tamper' = [kind |-> "cloture", pos |-> i, field |-> field]
    /\ UNCHANGED <<journal, pc, writer, clock, logs, logvars, nouvelle_cloture,
                   cl_result, date_cloture, clotures_lues, orig, appvars>>

\* Closures requested by both threads at once, while thread 1 also appends
\* events without details; alone on the journal, its log_action never raises.
ClotureSpecNext ==
    \/ \E p \in Loggers, ev \in {e \in Events : e.details = NoneVal} :
          tamper.kind = "none" /\ LogStart(p, ev)
    \/ \E p \in Loggers : LogReadTail(p)
    \/ \E p \in Loggers : LogInsert(p)
    \/ \E p \in Loggers : LogCommit(p)
    \/ \E p \in Procs, date \in Dates : tamper.kind = "none" /\ ClotureStart(p, date)
    \/ \E p \in Procs : ClotureQuery(p)
    \/ \E p \in Procs : ClotureCommit(p)
    \/ \E p \in Verifiers : VerifCloturesRead(p)
    \/ \E p \in Verifiers : VerifCloturesReturn(p)
    \/ \E i \in 1..(DateOf(MaxClock) + 1), field \in ClotureFields : TamperCloture(i, field)
    \/ Tick

SpecCloture == Init /\ [][ClotureSpecNext]_vars

\* Appends of events without details by both threads, where thread 1 keeps
\* running and thread 2 may stop anywhere, also between its INSERT and its
\* COMMIT, the write lock held.
LiveNext ==
    \/ \E p \in Procs, ev \in {e \in Events : ~Truthy(e.details)} : LogStart(p, ev)
    \/ \E p \in Procs : LogReadTail(p)
    \/ \E p \in Procs : LogInsert(p)
    \/ \E p \in Procs : LogCommit(p)
    \/ \E p \in Procs : LogLockTimeout(p)
    \/ \E p \in Procs : LogExcept(p)
    \/ Tick

LiveFairness ==
    \A p \in Loggers :
        /\ WF_vars(LogReadTail(p))
        /\ WF_vars(LogInsert(p) \/ LogLockTimeout(p))
        /\ WF_vars(LogCommit(p))
        /\ WF_vars(LogExcept(p))

SpecLive == Init /\ [][LiveNext]_vars /\ LiveFairness

\* The encoder applied to every pair of events.
EncInit ==
    /\ InitLedger
    /\ enc_in \in EncInputs \X EncInputs
    /\ enc_out = <<>>
    /\ InitMc
    /\ InitAuth
    /\ InitBank
    /\ InitChain

Encode ==
    /\ enc_in # <<>>
    /\ enc_out = <<>>
    /\ enc_out' = <<encode_event(enc_in[1]), encode_event(enc_in[2])>>
    /\ UNCHANGED <<journal, pc, writer, clock, logs, logvars, clvars, tvars,
                   enc_in, mcvars, authvars, bankvars, opvars, decvars, chainvars>>

SpecEnc == EncInit /\ [][Encode]_vars

\* ----------------------------------------------------------- maker-checker
\* log_action run to its end by a request handler while no other request
\* writes the journal: steps 1 to 6 and the commit.
log_action(rows, utilisateur_id, action, cible, details) ==
    LET horodatage == Truncate(clock)
        text == details_json(details)
        prev == IF DernierLog(rows) = <<>> THEN GENESIS_HASH
                ELSE DernierLog(rows)[1].hash_actuel
        c == canonical_json(horodatage, utilisateur_id, action, cible,
                            PayloadDetails(text), prev)
        nouveau_log == [id |-> NextId(rows),
                        horodatage |-> horodatage,
                        utilisateur_id |-> utilisateur_id,
                        action |-> action,
                        cible |-> cible,
                        details |-> text,
                        hash_precedent |-> prev,
                        hash_actuel |-> calculer_hash(c),
                        signature_hmac |-> calculer_hmac(c)]
    IN  IF \E i \in 1..Len(rows) : rows[i].hash_actuel = nouveau_log.hash_actuel
        THEN rows
        ELSE Append(rows, nouveau_log)

\* Keys of the details the handlers record: demande_id, maker_id or
\* actor_id, attempt.
DetailsRefus(demande_id, who, attempt) ==
    Dict(<< <<1, demande_id>>, <<2, who>>, <<3, attempt>> >>)

Retour(op, id, user, ok) == [op |-> op, id |-> id, user |-> user, ok |-> ok]

\* Compte.peut_retirer
peut_retirerSansMinimum(solde_compte, montant) ==
    IF montant <= 0 THEN FALSE
    ELSE montant <= RETRAIT_MAXIMUM

peut_retirer(solde_compte, montant) ==
    IF montant <= 0 THEN FALSE
    ELSE IF montant > RETRAIT_MAXIMUM THEN FALSE
    ELSE solde_compte - montant >= SOLDE_MINIMUM_COMPTE

\* session.query(OperationEnAttente).get(approbation_id) found a row and
\* the row is PENDING.
EnAttente(approbation_id) ==
    /\ approbation_id \in 1..Len(demandes)
    /\ demandes[approbation_id].statut = "PENDING"

\* Operation(...) of effectuer_operation; valide_par 0 stands for None.
NouvelleOperation(rows, type_op, montant, user_id, valide_par, solde_avant, solde_apres) ==
    [id |-> Len(rows) + 1,
     compte_id |-> 1,
     utilisateur_id |-> user_id,
     type_operation |-> type_op,
     montant |-> montant,
     solde_avant |-> solde_avant,
     solde_apres |-> solde_apres,
     valide_par_id |-> valide_par,
     date_operation |-> minutes]

\* extra = {"montant": ..., "nouveau_solde": ...} and, when the operation was
\* validated, "valide_par".
DetailsOperation(valide_par) ==
    IF valide_par = 0 THEN Dict(<< <<1, 1>> >>)
    ELSE Dict(<< <<1, 1>>, <<2, valide_par>> >>)

\* effectuer_operation goes through: the account is ACTIF and, for a
\* withdrawal, peut_retirer holds.
OperationAcceptee(type_op, montant) ==
    /\ compte_statut = "actif"
    /\ type_op = "RETRAIT" => peut_retirer(solde, montant)

SoldeApres(type_op, montant) ==
    IF type_op = "DEPOT" THEN solde + montant ELSE solde - montant

\* soumettre_approbation called for a withdrawal of Montant.
soumettre_approbation(user_id) ==
    /\ Len(demandes) < MaxDemandes
    /\ demandes' = Append(demandes, [id |-> Len(demandes) + 1,
                                     type_operation |-> "RETRAIT_EXCEPTIONNEL",
                                     montant |-> Montant,
                                     cree_par_id |-> user_id,
                                     statut |-> "PENDING",
                                     valide_par_id |-> 0])
    /\ journal' = log_action(journal, user_id, "SOUMISSION_APPROBATION",
                             "RETRAIT_EXCEPTIONNEL",
                             Dict(<< <<1, Len(demandes) + 1>> >>))
    /\ mc_retour' = Retour("soumettre", Len(demandes) + 1, user_id, TRUE)
    /\ UNCHANGED <<solde, pc, writer, clock, logs, logvars, clvars, tvars,
                   encvars, authvars, bankvars, opvars, decvars, chainvars>>

\* The approval itself: the request marked APPROVED, the withdrawal made by
\* effectuer_operation in the maker's name, both entries written.
Approuver(approbation_id, admin_id) ==
    LET d == demandes[approbation_id]
    IN  /\ demandes' = [demandes EXCEPT
                           ![approbation_id].statut = "APPROVED",
                           ![approbation_id].valide_par_id = admin_id]
        /\ solde' = solde - d.montant
        /\ operations' = Append(operations,
               NouvelleOperation(operations, "RETRAIT", d.montant, d.cree_par_id,
                                 admin_id, solde, solde - d.montant))
        /\ journal' = log_action(
               log_action(journal, d.cree_par_id, "RETRAIT", "Compte",
                          DetailsOperation(admin_id)),
               admin_id, "APPROBATION_VALIDEE", "RETRAIT_EXCEPTIONNEL",
               Dict(<< <<1, approbation_id>> >>))
        /\ mc_retour' = Retour("executer", approbation_id, admin_id, TRUE)

executer_approbationNoCheck(approbation_id, admin_id) ==
    /\ IF ~EnAttente(approbation_id)
       THEN /\ mc_retour' = Retour("executer", approbation_id, admin_id, FALSE)
            /\ UNCHANGED <<demandes, solde, operations, journal>>
       ELSE IF OperationAcceptee("RETRAIT", demandes[approbation_id].montant)
       THEN Approuver(approbation_id, admin_id)
       ELSE /\ mc_retour' = Retour("executer", approbation_id, admin_id, FALSE)
            /\ UNCHANGED <<demandes, solde, operations, journal>>
    /\ bank_retour' = NoBankRetour
    /\ UNCHANGED <<pc, writer, clock, logs, logvars, clvars, tvars, encvars,
                   authvars, client_statut, compte_statut, autres_comptes,
                   opvars, decvars, chainvars>>

\* _dispatcher_execution runs effectuer_operation with the maker as the
\* operation's user; when the withdrawal is refused the handler rolls the
\* APPROVED mark back.
executer_approbation(approbation_id, admin_id) ==
    /\ IF ~EnAttente(approbation_id)
       THEN /\ mc_retour' = Retour("executer", approbation_id, admin_id, FALSE)
            /\ UNCHANGED <<demandes, solde, operations, journal>>
       ELSE IF demandes[approbation_id].cree_par_id = admin_id
       THEN /\ journal' = log_action(journal, admin_id, "ACCES_REFUSE",
                                     "Tentative_auto-approbation",
                                     DetailsRefus(approbation_id, admin_id, 1))
            /\ mc_retour' = Retour("executer", approbation_id, admin_id, FALSE)
            /\ UNCHANGED <<demandes, solde, operations>>
       ELSE IF OperationAcceptee("RETRAIT", demandes[approbation_id].montant)
       THEN Approuver(approbation_id, admin_id)
       ELSE /\ mc_retour' = Retour("executer", approbation_id, admin_id, FALSE)
            /\ UNCHANGED <<demandes, solde, operations, journal>>
    /\ bank_retour' = NoBankRetour
    /\ UNCHANGED <<pc, writer, clock, logs, logvars, clvars, tvars, encvars,
                   authvars, client_statut, compte_statut, autres_comptes,
                   opvars, decvars, chainvars>>

rejeter_approbation(approbation_id, admin_id) ==
    /\ IF ~EnAttente(approbation_id)
       THEN /\ mc_retour' = Retour("rejeter", approbation_id, admin_id, FALSE)
            /\ UNCHANGED <<demandes, journal>>
       ELSE IF demandes[approbation_id].cree_par_id = admin_id
       THEN /\ journal' = log_action(journal, admin_id, "ACCES_REFUSE",
                                     "Tentative_auto-rejet",
                                     DetailsRefus(approbation_id, admin_id, 2))
            /\ mc_retour' = Retour("rejeter", approbation_id, admin_id, FALSE)
            /\ UNCHANGED demandes
       ELSE /\ demandes' = [demandes EXCEPT
                               ![approbation_id].statut = "REJECTED",
                               ![approbation_id].valide_par_id = admin_id]
            /\ journal' = log_action(journal, admin_id, "APPROBATION_REJETEE",
                                     "RETRAIT_EXCEPTIONNEL",
                                     Dict(<< <<1, approbation_id>> >>))
            /\ mc_retour' = Retour("rejeter", approbation_id, admin_id, TRUE)
    /\ UNCHANGED <<solde, pc, writer, clock, logs, logvars, clvars, tvars,
                   encvars, authvars, bankvars, opvars, decvars, chainvars>>

retirer_approbation(approbation_id, user_id) ==
    /\ IF ~EnAttente(approbation_id)
       THEN /\ mc_retour' = Retour("retirer", approbation_id, user_id, FALSE)
            /\ UNCHANGED <<demandes, journal>>
       ELSE IF demandes[approbation_id].cree_par_id # user_id
       THEN /\ journal' = log_action(journal, user_id, "ACCES_REFUSE",
                                     "Tentative_retrait_non_autorisee",
                                     DetailsRefus(approbation_id, user_id, 3))
            /\ mc_retour' = Retour("retirer", approbation_id, user_id, FALSE)
            /\ UNCHANGED demandes
       ELSE /\ demandes' = [demandes EXCEPT
                               ![approbation_id].statut = "CANCELLED"]
            /\ journal' = log_action(journal, user_id, "SOUMISSION_RETRACTION",
                                     "RETRAIT_EXCEPTIONNEL",
                                     Dict(<< <<1, approbation_id>> >>))
            /\ mc_retour' = Retour("retirer", approbation_id, user_id, TRUE)
    /\ UNCHANGED <<solde, pc, writer, clock, logs, logvars, clvars, tvars,
                   encvars, authvars, bankvars, opvars, decvars, chainvars>>

\* Request ids a caller may name: those of the table and one beyond it.
DemandeIds == 1..(MaxDemandes + 1)

McNext ==
    /\ Len(journal) < MaxMcJournal
    /\ \/ \E u \in MC_Users : soumettre_approbation(u)
       \/ \E id \in DemandeIds, u \in MC_Users : executer_approbation(id, u)
       \/ \E id \in DemandeIds, u \in MC_Users : rejeter_approbation(id, u)
       \/ \E id \in DemandeIds, u \in MC_Users : retirer_approbation(id, u)

SpecMc == Init /\ [][McNext]_vars

\* ------------------------------------------------------------ bank routes
\* Amounts a form or a caller may give: negative, zero, small, the amount of
\* the requests, the whole opening balance, one above the withdrawal limit.
Montants ==
    {0 - PetitMontant, 0, PetitMontant, Montant, SoldeInitial,
     RETRAIT_MAXIMUM + 1}

\* g.user of the bank routes.
Guichetier == 1

BankRetour(op, ok) == [op |-> op, ok |-> ok]

BankFrame ==
    /\ mc_retour' = NoRetour
    /\ UNCHANGED <<pc, writer, clock, logs, logvars, clvars, tvars, encvars,
                authvars, opvars, decvars, chainvars>>

\* effectuer_operation called on the account, by a route, the dispatcher or
\* a caller of its own, with no other request running.
effectuer_operation(op, type_op, montant, user_id) ==
    IF OperationAcceptee(type_op, montant)
    THEN /\ solde' = SoldeApres(type_op, montant)
         /\ operations' = Append(operations,
                NouvelleOperation(operations, type_op, montant, user_id, 0,
                                  solde, SoldeApres(type_op, montant)))
         /\ journal' = log_action(journal, user_id, type_op, "Compte",
                                  DetailsOperation(0))
         /\ bank_retour' = BankRetour(op, TRUE)
    ELSE /\ bank_retour' = BankRetour(op, FALSE)
         /\ UNCHANGED <<solde, operations, journal>>

\* A request refused by a route, with the ECHEC entry the route writes.
Echec(op, action, raison) ==
    /\ journal' = log_action(journal, Guichetier, action, "Compte",
                             Dict(<< <<1, raison>> >>))
    /\ bank_retour' = BankRetour(op, FALSE)
    /\ UNCHANGED <<solde, operations>>

\* effectuer_operation(compte.id, montant, TypeOperation.RETRAIT, user.id)
AppelRetrait(montant) ==
    /\ Len(operations) < MaxOperations
    /\ effectuer_operation("appel_retrait", "RETRAIT", montant, Guichetier)
    /\ UNCHANGED <<demandes, client_statut, compte_statut,
                   autres_comptes>>
    /\ BankFrame

\* effectuer_operation(compte.id, montant, TypeOperation.DEPOT, user.id)
AppelDepot(montant) ==
    /\ Len(operations) < MaxOperations
    /\ effectuer_operation("appel_depot", "DEPOT", montant, Guichetier)
    /\ UNCHANGED <<demandes, client_statut, compte_statut,
                   autres_comptes>>
    /\ BankFrame

\* POST /operations/depot/<compte_id>
depot(montant) ==
    /\ Len(operations) < MaxOperations
    /\ IF compte_statut # "actif" THEN Echec("depot", "ECHEC_DEPOT", 1)
       ELSE IF client_statut # "actif" THEN Echec("depot", "ECHEC_DEPOT", 2)
       ELSE IF montant <= 0 THEN Echec("depot", "ECHEC_DEPOT", 3)
       ELSE effectuer_operation("depot", "DEPOT", montant, Guichetier)
    /\ UNCHANGED <<demandes, client_statut, compte_statut,
                   autres_comptes>>
    /\ BankFrame

\* POST /operations/retrait/<compte_id>.  Config.MAKER_CHECKER_THRESHOLD is
\* set nowhere in config.py, so either side of the comparison with it is
\* taken: exceptionnel tells that the amount is above the threshold.
retrait(montant, exceptionnel) ==
    /\ Len(operations) < MaxOperations
    /\ IF compte_statut # "actif"
       THEN Echec("retrait", "ECHEC_RETRAIT", 1) /\ UNCHANGED demandes
       ELSE IF client_statut # "actif"
       THEN Echec("retrait", "ECHEC_RETRAIT", 2) /\ UNCHANGED demandes
       ELSE IF montant <= 0
       THEN Echec("retrait", "ECHEC_RETRAIT", 3) /\ UNCHANGED demandes
       ELSE IF montant > RETRAIT_MAXIMUM
       THEN Echec("retrait", "ECHEC_RETRAIT", 4) /\ UNCHANGED demandes
       ELSE IF ~peut_retirer(solde, montant)
       THEN Echec("retrait", "ECHEC_RETRAIT", 5) /\ UNCHANGED demandes
       ELSE IF exceptionnel
       THEN /\ Len(demandes) < MaxDemandesGuichet
            /\ demandes' = Append(demandes,
                   [id |-> Len(demandes) + 1,
                    type_operation |-> "RETRAIT_EXCEPTIONNEL",
                    montant |-> montant,
                    cree_par_id |-> Guichetier,
                    statut |-> "PENDING",
                    valide_par_id |-> 0])
            /\ journal' = log_action(journal, Guichetier,
                              "SOUMISSION_APPROBATION", "RETRAIT_EXCEPTIONNEL",
                              Dict(<< <<1, Len(demandes) + 1>> >>))
            /\ bank_retour' = BankRetour("retrait", FALSE)
            /\ UNCHANGED <<solde, operations>>
       ELSE /\ effectuer_operation("retrait", "RETRAIT", montant, Guichetier)
            /\ UNCHANGED demandes
    /\ UNCHANGED <<client_statut, compte_statut, autres_comptes>>
    /\ BankFrame

\* POST /accounts/nouveau/<client_id>: a further account for the client.
create(montant_initial) ==
    /\ autres_comptes < MaxAutresComptes
    /\ Len(operations) < MaxOperations
    /\ IF client_statut # "actif" \/ montant_initial < SOLDE_MINIMUM_INITIAL
       THEN /\ bank_retour' = BankRetour("create", FALSE)
            /\ UNCHANGED <<autres_comptes, operations, journal>>
       ELSE /\ autres_comptes' = autres_comptes + 1
            /\ operations' = Append(operations,
                   [NouvelleOperation(operations, "DEPOT", montant_initial,
                                      Guichetier, 0, 0, montant_initial)
                       EXCEPT !.compte_id = 1 + autres_comptes + 1])
            /\ journal' = log_action(journal, Guichetier, "CREATION_COMPTE",
                                     "Compte", Dict(<< <<1, 1>> >>))
            /\ bank_retour' = BankRetour("create", TRUE)
    /\ UNCHANGED <<solde, demandes, client_statut, compte_statut>>
    /\ BankFrame

\* POST /accounts/<id>/cloturer
close ==
    /\ IF solde # 0
       THEN /\ bank_retour' = BankRetour("close", FALSE)
            /\ UNCHANGED <<compte_statut, journal>>
       ELSE /\ compte_statut' = "ferme"
            /\ journal' = log_action(journal, Guichetier, "CLOTURE_COMPTE",
                                     "Compte", Dict(<< <<1, 1>> >>))
            /\ bank_retour' = BankRetour("close", TRUE)
    /\ UNCHANGED <<solde, operations, demandes, client_statut,
                   autres_comptes>>
    /\ BankFrame

\* POST /accounts/<id>/reopen
reopen ==
    /\ IF compte_statut # "ferme" \/ client_statut # "actif"
       THEN /\ bank_retour' = BankRetour("reopen", FALSE)
            /\ UNCHANGED <<compte_statut, journal>>
       ELSE /\ compte_statut' = "actif"
            /\ journal' = log_action(journal, Guichetier, "REOUVERTURE_COMPTE",
                                     "Compte", Dict(<< <<1, 1>> >>))
            /\ bank_retour' = BankRetour("reopen", TRUE)
    /\ UNCHANGED <<solde, operations, demandes, client_statut,
                   autres_comptes>>
    /\ BankFrame

deactivateNoCheck(nouveau_statut) ==
    /\ client_statut' = nouveau_statut
    /\ journal' = log_action(journal, Guichetier, "DESACTIVATION_CLIENT",
                             "Client", Dict(<< <<1, 1>> >>))
    /\ bank_retour' = BankRetour("deactivate", TRUE)
    /\ UNCHANGED <<solde, operations, demandes, compte_statut,
                   autres_comptes>>
    /\ BankFrame

\* POST /clients/<id>/desactiver: refused while the client has an account
\* that is not FERME.
deactivate(nouveau_statut) ==
    /\ IF compte_statut # "ferme" \/ autres_comptes > 0
       THEN /\ bank_retour' = BankRetour("deactivate", FALSE)
            /\ UNCHANGED <<client_statut, journal>>
       ELSE /\ client_statut' = nouveau_statut
            /\ journal' = log_action(journal, Guichetier, "DESACTIVATION_CLIENT",
                                     "Client", Dict(<< <<1, 1>> >>))
            /\ bank_retour' = BankRetour("deactivate", TRUE)
    /\ UNCHANGED <<solde, operations, demandes, compte_statut,
                   autres_comptes>>
    /\ BankFrame

\* POST /clients/<id>/reactiver
reactivate ==
    /\ client_statut' = "actif"
    /\ journal' = log_action(journal, Guichetier, "REACTIVATION_CLIENT",
                             "Client", Dict(<< <<1, 1>> >>))
    /\ bank_retour' = BankRetour("reactivate", TRUE)
    /\ UNCHANGED <<solde, operations, demandes, compte_statut,
                   autres_comptes>>
    /\ BankFrame

\* Calls of effectuer_operation one after the other.
OpsNext ==
    \/ \E montant \in Montants : AppelRetrait(montant)
    \/ \E montant \in Montants : AppelDepot(montant)

SpecOps == Init /\ [][OpsNext]_vars

\* Requests made one after the other at the counter and by the checker.
BankNext ==
    /\ Len(journal) < MaxBankJournal
    /\ \/ \E montant \in {0, PetitMontant} : depot(montant)
       \/ \E montant \in {PetitMontant, SoldeInitial}, exceptionnel \in BOOLEAN :
              retrait(montant, exceptionnel)
       \/ \E montant \in {SOLDE_MINIMUM_INITIAL - 1, SOLDE_MINIMUM_INITIAL} :
              create(montant)
       \/ close
       \/ reopen
       \/ \E nouveau_statut \in {"inactif"} : deactivate(nouveau_statut)
       \/ reactivate
       \/ \E id \in 1..(MaxDemandesGuichet + 1),
             u \in MC_Users \ {Guichetier} : executer_approbation(id, u)

SpecBank == Init /\ [][BankNext]_vars

\* ------------------------------------- effectuer_operation, step by step
\* Calls of effectuer_operation that run at the same time, one per request
\* thread, thread p acting for user p.  The thread's session is the one
\* log_action gets from obtenir_session: what the call has pending is flushed
\* by log_action's query and committed or rolled back by log_action.
OpFrame ==
    UNCHANGED <<pc, clock, logs, args, hash_precedent, staged, result,
                overlapped, clvars, tvars, encvars, demandes, mc_retour,
                authvars, client_statut, compte_statut, autres_comptes,
                bank_retour, decvars, chainvars>>

Signe(type_op, montant) == IF type_op = "DEPOT" THEN montant ELSE 0 - montant

\* session.query(Compte)...with_for_update().first() and the checks: a plain
\* SELECT of the committed row, which takes no lock; then the new balance
\* and the Operation row, pending in the session.
OpSelect(p, type_op, montant) ==
    /\ op_pc[p] = "idle"
    /\ started < MaxCalls
    /\ started' = started + 1
    /\ IF OperationAcceptee(type_op, montant)
       THEN /\ pending' = [pending EXCEPT ![p] =
                  [solde |-> SoldeApres(type_op, montant),
                   rows |-> <<NouvelleOperation(<<>>, type_op, montant, p, 0,
                                  solde, SoldeApres(type_op, montant))>>,
                   flushed |-> FALSE]]
            /\ op_args' = [op_args EXCEPT ![p] =
                  [type_op |-> type_op, montant |-> montant,
                   solde_avant |-> solde, log |-> "none"]]
            /\ op_pc' = [op_pc EXCEPT ![p] = "log"]
            /\ UNCHANGED op_retour
       ELSE /\ op_retour' = [op_retour EXCEPT ![p] = FALSE]
            /\ UNCHANGED <<pending, op_args, op_pc>>
    /\ UNCHANGED <<journal, solde, operations, writer, faults, op_succes>>
    /\ OpFrame

\* log_action, step 2: the query flushes the session first, and the UPDATE
\* of the balance takes SQLite's write lock.
OpFlush(p) ==
    /\ op_pc[p] = "log"
    /\ writer = 0
    /\ writer' = p
    /\ pending' = [pending EXCEPT ![p].flushed = TRUE]
    /\ op_pc' = [op_pc EXCEPT ![p] = "log_insert"]
    /\ UNCHANGED <<journal, solde, operations, started, faults, op_args,
                   op_retour, op_succes>>
    /\ OpFrame

\* The lock is held by another thread until the busy timeout: the flush
\* raises inside log_action, whose except clause rolls the session back and
\* returns False.
OpFlushTimeout(p) ==
    /\ op_pc[p] = "log"
    /\ writer \notin {0, p}
    /\ faults < MaxFaults
    /\ faults' = faults + 1
    /\ pending' = [pending EXCEPT ![p] = NoPending]
    /\ op_args' = [op_args EXCEPT ![p].log = "failed"]
    /\ op_pc' = [op_pc EXCEPT ![p] = "commit"]
    /\ UNCHANGED <<journal, solde, operations, writer, started, op_retour,
                   op_succes>>
    /\ OpFrame

\* Any other exception of the storage while log_action inserts or commits.
OpLogStorageFailure(p) ==
    /\ op_pc[p] = "log_insert"
    /\ faults < MaxFaults
    /\ faults' = faults + 1
    /\ writer' = 0
    /\ pending' = [pending EXCEPT ![p] = NoPending]
    /\ op_args' = [op_args EXCEPT ![p].log = "failed"]
    /\ op_pc' = [op_pc EXCEPT ![p] = "commit"]
    /\ UNCHANGED <<journal, solde, operations, started, op_retour, op_succes>>
    /\ OpFrame

\* log_action, steps 3 to 5 and session.commit(): the journal row, the
\* balance and the Operation row are committed together.
OpLogCommit(p) ==
    /\ op_pc[p] = "log_insert"
    /\ journal' = log_action(journal, p, op_args[p].type_op, "Compte",
                             DetailsOperation(0))
    /\ solde' = pending[p].solde
    /\ operations' = Append(operations,
           [pending[p].rows[1] EXCEPT !.id = Len(operations) + 1])
    /\ writer' = 0
    /\ pending' = [pending EXCEPT ![p] = NoPending]
    /\ op_args' = [op_args EXCEPT ![p].log = "ok"]
    /\ op_pc' = [op_pc EXCEPT ![p] = "commit"]
    /\ UNCHANGED <<started, faults, op_retour, op_succes>>
    /\ OpFrame

\* session.commit() of effectuer_operation, with nothing left to commit, and
\* return True, operation.
OpCommit(p) ==
    /\ op_pc[p] = "commit"
    /\ op_retour' = [op_retour EXCEPT ![p] = TRUE]
    /\ op_succes' = op_succes + Signe(op_args[p].type_op, op_args[p].montant)
    /\ op_args' = [op_args EXCEPT ![p] = NoOpArgs]
    /\ op_pc' = [op_pc EXCEPT ![p] = "idle"]
    /\ UNCHANGED <<journal, solde, operations, writer, started, faults, pending>>
    /\ OpFrame

ConcNext ==
    \/ \E p \in Procs, type_op \in {"DEPOT", "RETRAIT"},
          montant \in {PetitMontant, Montant} : OpSelect(p, type_op, montant)
    \/ \E p \in Procs : OpFlush(p)
    \/ \E p \in Procs : OpFlushTimeout(p)
    \/ \E p \in Procs : OpLogStorageFailure(p)
    \/ \E p \in Procs : OpLogCommit(p)
    \/ \E p \in Procs : OpCommit(p)

SpecConc == Init /\ [][ConcNext]_vars

\* ------------------------------------------- decisions, step by step
\* executer_approbation, rejeter_approbation and retirer_approbation called
\* by request threads that run at the same time, thread p acting for user p.
\* Who may not take the decision: the maker for an approval or a rejection,
\* anyone else for a withdrawal of the request.
DecisionInterdite(op, approbation_id, user_id) ==
    IF op = "retirer" THEN demandes[approbation_id].cree_par_id # user_id
    ELSE demandes[approbation_id].cree_par_id = user_id

\* session.query(OperationEnAttente).get(approbation_id) and the two checks
\* made on the row as read.
DecRead(p, op, approbation_id) ==
    /\ dec_pc[p] = "idle"
    /\ IF ~EnAttente(approbation_id)
       THEN /\ dec_retour' = [dec_retour EXCEPT ![p] =
                                 [id |-> approbation_id, ok |-> FALSE]]
            /\ UNCHANGED <<journal, dec_pc, dec_args>>
       ELSE IF DecisionInterdite(op, approbation_id, p)
       THEN /\ journal' = log_action(journal, p, "ACCES_REFUSE", op,
                              DetailsRefus(approbation_id, p,
                                  IF op = "executer" THEN 1
                                  ELSE IF op = "rejeter" THEN 2 ELSE 3))
            /\ dec_retour' = [dec_retour EXCEPT ![p] =
                                 [id |-> approbation_id, ok |-> FALSE]]
            /\ UNCHANGED <<dec_pc, dec_args>>
       ELSE /\ dec_pc' = [dec_pc EXCEPT ![p] = "write"]
            /\ dec_args' = [dec_args EXCEPT ![p] =
                               [op |-> op, id |-> approbation_id, user |-> p]]
            /\ UNCHANGED <<journal, dec_retour>>
    /\ UNCHANGED <<demandes, solde, operations, mc_retour>>
    /\ UNCHANGED <<pc, writer, clock, logs, logvars, clvars, tvars, encvars,
                   authvars, client_statut, compte_statut, autres_comptes,
                   bank_retour, opvars, chainvars>>

\* The row is marked and committed, whatever its status has become since it
\* was read; an approval runs effectuer_operation before it commits.
DecWrite(p) ==
    LET a == dec_args[p]
        d == demandes[a.id]
    IN  /\ dec_pc[p] = "write"
        /\ IF a.op = "executer"
           THEN IF OperationAcceptee("RETRAIT", d.montant)
                THEN /\ Approuver(a.id, p)
                     /\ dec_retour' = [dec_retour EXCEPT ![p] =
                                          [id |-> a.id, ok |-> TRUE]]
                ELSE /\ dec_retour' = [dec_retour EXCEPT ![p] =
                                          [id |-> a.id, ok |-> FALSE]]
                     /\ UNCHANGED <<demandes, solde, operations, journal,
                                    mc_retour>>
           ELSE /\ demandes' = [demandes EXCEPT
                       ![a.id].statut = IF a.op = "rejeter" THEN "REJECTED"
                                        ELSE "CANCELLED",
                       ![a.id].valide_par_id = IF a.op = "rejeter" THEN p
                                               ELSE d.valide_par_id]
                /\ journal' = log_action(journal, p,
                       IF a.op = "rejeter" THEN "APPROBATION_REJETEE"
                       ELSE "SOUMISSION_RETRACTION",
                       "RETRAIT_EXCEPTIONNEL", Dict(<< <<1, a.id>> >>))
                /\ dec_retour' = [dec_retour EXCEPT ![p] =
                                     [id |-> a.id, ok |-> TRUE]]
                /\ UNCHANGED <<solde, operations, mc_retour>>
        /\ dec_pc' = [dec_pc EXCEPT ![p] = "idle"]
        /\ dec_args' = [dec_args EXCEPT ![p] =
                           [op |-> "none", id |-> 0, user |-> 0]]
        /\ UNCHANGED <<pc, writer, clock, logs, logvars, clvars, tvars, encvars,
                       authvars, client_statut, compte_statut, autres_comptes,
                       bank_retour, opvars, chainvars>>

DecNext ==
    \/ Len(journal) < MaxMcJournal /\ \E u \in MC_Users : soumettre_approbation(u)
    \/ \E p \in Procs, op \in {"executer", "rejeter", "retirer"},
          id \in DemandeIds :
          Len(journal) < MaxMcJournal /\ DecRead(p, op, id)
    \/ \E p \in Procs : DecWrite(p)

SpecDec == Init /\ [][DecNext]_vars

\* ------------------------------------------------------------------- login
Usernames == {1, 2, 3}

\* db_session.query(Utilisateur).filter_by(nom_utilisateur=username).first():
\* 0 stands for None.
UserOf(username) == IF username \in DOMAIN utilisateurs THEN username ELSE 0

\* Values of the "raison" member of the details login records.
RaisonCodes ==
    [utilisateur_inexistant |-> 1, compte_inactif |-> 2,
     compte_verrouille |-> 3, mot_de_passe_incorrect |-> 4,
     trop_de_tentatives |-> 5, expiration_lockout |-> 6]

\* {"nom_utilisateur": username, "raison": raison}
DetailsLogin(username, raison) ==
    Dict(<< <<1, username>>, <<2, RaisonCodes[raison]>> >>)

\* {"nom_utilisateur": username}
DetailsConnexion(username) == Dict(<< <<1, username>> >>)

est_verrouilleJamais(user) == FALSE

\* Utilisateur.est_verrouille
est_verrouille(user) ==
    IF user.verrouille_jusqu_a = NoLock THEN FALSE
    ELSE minutes < user.verrouille_jusqu_a

Refus(username, password_ok) ==
    [username |-> username, password_ok |-> password_ok, refused |-> TRUE,
     opened |-> FALSE]

\* POST /auth/login
login(username, password_ok) ==
    /\ Len(journal) < MaxAuthJournal
    /\ LET u == UserOf(username)
       IN  IF session_user # 0
           THEN /\ login_retour' = [username |-> username,
                                    password_ok |-> password_ok,
                                    refused |-> FALSE, opened |-> FALSE]
                /\ UNCHANGED <<journal, utilisateurs, session_user>>
           ELSE IF u = 0
           THEN /\ journal' = log_action(journal, 0, "ECHEC_CONNEXION", "Systeme",
                                  DetailsLogin(username, "utilisateur_inexistant"))
                /\ login_retour' = Refus(username, password_ok)
                /\ UNCHANGED <<utilisateurs, session_user>>
           ELSE IF ~utilisateurs[u].is_active
           THEN /\ journal' = log_action(journal, u, "ECHEC_CONNEXION", "Systeme",
                                  DetailsLogin(username, "compte_inactif"))
                /\ login_retour' = Refus(username, password_ok)
                /\ UNCHANGED <<utilisateurs, session_user>>
           ELSE IF est_verrouille(utilisateurs[u])
           THEN /\ journal' = log_action(journal, u, "ECHEC_CONNEXION", "Systeme",
                                  DetailsLogin(username, "compte_verrouille"))
                /\ login_retour' = Refus(username, password_ok)
                /\ UNCHANGED <<utilisateurs, session_user>>
           ELSE IF ~password_ok
           THEN IF utilisateurs[u].tentatives_connexion + 1 >= MAX_LOGIN_ATTEMPTS
                THEN /\ utilisateurs' = [utilisateurs EXCEPT
                            ![u].verrouille_jusqu_a = minutes + LOCKOUT_MINUTES,
                            ![u].verrouille_raison = "trop_de_tentatives",
                            ![u].verrouille_le = minutes,
                            ![u].tentatives_connexion = 0]
                     /\ journal' = log_action(journal, u,
                                       "VERROUILLAGE_AUTO_UTILISATEUR", "Systeme",
                                       DetailsLogin(username, "trop_de_tentatives"))
                     /\ login_retour' = Refus(username, password_ok)
                     /\ UNCHANGED session_user
                ELSE /\ utilisateurs' = [utilisateurs EXCEPT
                            ![u].tentatives_connexion = @ + 1]
                     /\ journal' = log_action(journal, u, "ECHEC_CONNEXION",
                                       "Systeme",
                                       DetailsLogin(username, "mot_de_passe_incorrect"))
                     /\ login_retour' = Refus(username, password_ok)
                     /\ UNCHANGED session_user
           ELSE /\ utilisateurs' = [utilisateurs EXCEPT
                       ![u].tentatives_connexion = 0,
                       ![u].verrouille_jusqu_a = NoLock]
                /\ journal' =
                       LET rows == IF utilisateurs[u].verrouille_jusqu_a # NoLock
                                   THEN log_action(journal, u, "DEVERROUILLAGE_AUTO",
                                            "Systeme",
                                            DetailsLogin(username, "expiration_lockout"))
                                   ELSE journal
                       IN  log_action(rows, u, "CONNEXION", "Systeme",
                                      DetailsConnexion(username))
                /\ session_user' = u
                /\ login_retour' = [username |-> username,
                                    password_ok |-> password_ok,
                                    refused |-> FALSE, opened |-> TRUE]
    /\ UNCHANGED <<minutes, pc, writer, clock, logs, logvars, clvars, tvars,
                   encvars, mcvars, bankvars, opvars, decvars, chainvars>>

\* GET /auth/logout
logout ==
    /\ Len(journal) < MaxAuthJournal
    /\ journal' = IF session_user # 0
                  THEN log_action(journal, session_user, "DECONNEXION", "Systeme",
                                  DetailsConnexion(session_user))
                  ELSE journal
    /\ session_user' = 0
    /\ login_retour' = NoLogin
    /\ UNCHANGED <<utilisateurs, minutes, pc, writer, clock, logs, logvars,
                   clvars, tvars, encvars, mcvars, bankvars,
                   opvars, decvars, chainvars>>

\* datetime.utcnow() moving on by a minute.
MinuteTick ==
    /\ minutes < MaxMinutes
    /\ minutes' = minutes + 1
    /\ UNCHANGED <<journal, utilisateurs, session_user, login_retour, pc,
                   writer, clock, logs, logvars, clvars, tvars, encvars, mcvars, bankvars,
                   opvars, decvars, chainvars>>

AuthNext ==
    \/ \E username \in Usernames, password_ok \in BOOLEAN :
           login(username, password_ok)
    \/ logout
    \/ MinuteTick

SpecAuth == Init /\ [][AuthNext]_vars

\* ----------------------------------------------------------- chain summary
\* What the three checks of one loop turn may report for an entry.
CheckOutcomes ==
    {<<>>, <<"rupture_precedent">>, <<"hash_invalide", "hmac_invalide">>,
     <<"hmac_invalide">>}

\* The report verifier_integrite_detailed returns when the checks of the
\* i-th row gave outcomes[i]; only the fields verifier_chain reads are kept.
ReportOf(outcomes) ==
    LET entries == [i \in 1..Len(outcomes) |->
                       [id |-> i,
                        status |-> StatusOf(outcomes[i]),
                        errors |-> outcomes[i]]]
        errors == Flatten([i \in 1..Len(outcomes) |->
                       [k \in 1..Len(outcomes[i]) |-> <<i, outcomes[i][k]>>]])
    IN  [valid |-> Len(errors) = 0, entries |-> entries, errors |-> errors]

RECURSIVE Outcomes(_)
Outcomes(n) ==
    IF n = 0 THEN {<<>>}
    ELSE LET shorter == Outcomes(n - 1)
         IN  shorter \cup
             {Append(o, c) : o \in {x \in shorter : Len(x) = n - 1},
                             c \in CheckOutcomes}

preview_limit == 5

broken_idxsRuptures(entries) ==
    SelectSeq([i \in 1..Len(entries) |-> i - 1],
              LAMBDA i : entries[i + 1].status = "broken_precedent")

\* [i for i, e in enumerate(entries) if e['status'] != 'ok'], from 0.
broken_idxs(entries) ==
    SelectSeq([i \in 1..Len(entries) |-> i - 1],
              LAMBDA i : entries[i + 1].status # "ok")

\* A segment; idx -1 stands for None, count is 0 but for a gap.
Segment(type, idx, count) == [type |-> type, idx |-> idx, count |-> count]

Gap(count) == IF count > 0 THEN <<Segment("gap", 0 - 1, count)>> ELSE <<>>

\* for i, b_idx in enumerate(broken_idxs): ...
RECURSIVE BrokenSegments(_, _, _)
BrokenSegments(b, i, n) ==
    IF i > Len(b) THEN <<>>
    ELSE <<Segment("broken", b[i], 0)>>
         \o (IF i + 1 <= Len(b)
             THEN Gap(b[i + 1] - b[i] - 1)
             ELSE Gap((n - 1) - b[i] - 1)
                  \o <<Segment("daily", n - 1, 0)>>)
         \o BrokenSegments(b, i + 1, n)

Segments(entries) ==
    LET n == Len(entries)
        b == broken_idxs(entries)
    IN  <<Segment("genesis", 0 - 1, 0)>>
        \o (IF Len(b) = 0
            THEN <<Segment("first", 0, 0)>>
                 \o Gap((n - 1) - 0 - 1)
                 \o (IF n > 1 THEN <<Segment("daily", n - 1, 0)>> ELSE <<>>)
            ELSE (IF entries[1].status = "ok"
                  THEN <<Segment("first", 0, 0)>> \o Gap(b[1] - 0 - 1)
                  ELSE <<>>)
                 \o BrokenSegments(b, 1, n))

\* The summary verifier_chain hands to the template.
verifier_chain(data) ==
    LET entries == data.entries
        n == Len(entries)
        b == broken_idxs(entries)
    IN  IF n = 0 THEN [n |-> 0]
        ELSE [n |-> n,
              daily |-> entries[n],
              broken_first |-> IF Len(b) > 0 THEN b[1] ELSE 0 - 1,
              broken_count |-> Len(b),
              broken_ids |-> [k \in 1..Len(b) |-> entries[b[k] + 1].id],
              segments |-> Segments(entries),
              broken_preview |->
                  [k \in 1..(IF Len(b) < preview_limit THEN Len(b)
                             ELSE preview_limit) |-> entries[b[k] + 1]],
              broken_remaining |->
                  IF Len(b) - preview_limit > 0 THEN Len(b) - preview_limit
                  ELSE 0,
              entries |-> entries]

\* GET /audit/verifier/chain
VerifierChain ==
    /\ chain_out' = verifier_chain(chain_in)
    /\ UNCHANGED <<journal, pc, writer, clock, logs, logvars, clvars, tvars,
                   encvars, mcvars, authvars, bankvars, opvars, decvars,
                   chain_in>>

ChainInit ==
    /\ InitLedger
    /\ InitEnc
    /\ InitMc
    /\ InitAuth
    /\ InitBank
    /\ chain_in \in {ReportOf(o) : o \in Outcomes(MaxEntries)}
    /\ chain_out = NoSummary

SpecChain == ChainInit /\ [][VerifierChain]_vars

\* ------------------------------------------------------------ properties
Linked(rows) ==
    /\ rows # <<>> => rows[1].hash_precedent = GENESIS_HASH
    /\ \A i \in 2..Len(rows) :
          /\ rows[i].hash_precedent = rows[i - 1].hash_actuel
          /\ rows[i].id = rows[i - 1].id + 1

Unbranched(rows) ==
    \A i, j \in 1..Len(rows) :
        i # j => rows[i].hash_precedent # rows[j].hash_precedent

Verifying(p) == pc[p] \in {"verif", "verif_d"}

\* What a run returns: whether it raised, its verdict and its list of
\* <<id, error>> pairs.
Report(p) ==
    IF pc[p] = "verif"
    THEN LET r == verifier_integrite(logs[p])
         IN  [raised |-> r.raised, valid |-> r.valide, errors |-> r.erreurs]
    ELSE LET r == verifier_integrite_detailed(logs[p])
         IN  [raised |-> r.raised, valid |-> r.valid, errors |-> r.errors]

\* The ids a report flags with the error e, and with any error.
Flagged(r, e) ==
    {r.errors[k][1] : k \in {j \in 1..Len(r.errors) : r.errors[j][2] = e}}

AnyFlagged(r) == {r.errors[k][1] : k \in 1..Len(r.errors)}

\* C1: N callers running log_action concurrently persist exactly N entries,
\* which form one unbranched chain: no two entries share a hash_precedent,
\* each entry's hash_precedent is the hash_actuel of the entry before it, and
\* no call is turned away unless its input or the storage failed.
C1_ConcurrentAppendsOneChain ==
    /\ Unbranched(journal)
    /\ Linked(journal)
    /\ \A p \in Procs : (pc[p] = "except" /\ faults = 0) => args[p] = NoArgs

\* C2: after non-overlapping successful appends from an empty journal, the
\* first entry's hash_precedent is the genesis sentinel and every other
\* entry's hash_precedent is the hash_actuel of the entry with the preceding id.
C2_SequentialLinkage == ~overlapped => Linked(journal)

C2_Witness ==
    /\ ~overlapped
    /\ Len(journal) = 3
    /\ journal[3].hash_precedent = journal[2].hash_actuel
    /\ journal[1].hash_precedent = GENESIS_HASH

\* C3: in a journal written by log_action alone, the hash and the HMAC
\* recomputed from every stored entry equal the stored ones, and after a
\* sequence of appends verifier_integrite returns (True, []).
C3_RoundTrip ==
    /\ \A i \in 1..Len(journal) :
          /\ DetailsLoadable(journal[i].details)
          /\ journal[i].hash_actuel = calculer_hash(RowCanonical(journal[i]))
          /\ journal[i].signature_hmac = calculer_hmac(RowCanonical(journal[i]))
    /\ \A p \in Procs : (pc[p] = "verif" /\ ~overlapped) =>
          verifier_integrite(logs[p]) =
              [raised |-> FALSE, valide |-> TRUE, erreurs |-> <<>>]

C3_Witness ==
    /\ pc[2] = "verif"
    /\ ~overlapped
    /\ Len(logs[2]) = 3
    /\ \E i \in 1..3 : logs[2][i].details # <<>>
    /\ verifier_integrite(logs[2]).valide

\* C4: changing one stored content field of one entry, hash_actuel and
\* signature_hmac left as written, makes the verifier return valid = False
\* and report an invalid hash for that entry and for no other.
C4_ContentChangeDetected ==
    \A p \in Procs :
        (Verifying(p) /\ logs[p] = journal /\ tamper.kind = "field"
            /\ tamper.field \in ContentFields)
        => LET r == Report(p)
           IN  /\ ~r.raised
               /\ ~r.valid
               /\ Flagged(r, "hash_invalide") = {journal[tamper.pos].id}

\* C5: when the content of entry k is altered and the stored hashes are left
\* as written, the verifier flags no entry other than k; an entry is flagged
\* with a chain break exactly when its stored hash_precedent differs from the
\* stored hash_actuel of the entry before it.
C5_NoCascade ==
    \A p \in Procs :
        Verifying(p) =>
            LET r == Report(p)
            IN  ~r.raised =>
                /\ Flagged(r, "rupture_precedent") =
                      {logs[p][i].id : i \in {j \in 1..Len(logs[p]) :
                          logs[p][j].hash_precedent #
                            (IF j = 1 THEN GENESIS_HASH
                             ELSE logs[p][j - 1].hash_actuel)}}
                /\ (logs[p] = journal /\ tamper.kind = "field"
                       /\ tamper.field \in ContentFields)
                   => AnyFlagged(r) \subseteq {journal[tamper.pos].id}

C5_Witness ==
    /\ pc[2] = "verif_d"
    /\ logs[2] = journal
    /\ tamper.kind = "field"
    /\ tamper.field = "cible"
    /\ tamper.pos = 2
    /\ Len(journal) = 3
    /\ verifier_integrite_detailed(logs[2]).entries[2].errors =
          <<"hash_invalide", "hmac_invalide">>
    /\ verifier_integrite_detailed(logs[2]).entries[3].status = "ok"

\* The first place where the journal departs from what it was before the edit.
FirstDisturbed ==
    LET d == {i \in 1..Len(journal) : journal[i] # orig[i]}
    IN  IF d = {} THEN Len(journal) + 1
        ELSE CHOOSE i \in d : \A j \in d : i <= j

\* C6: after one entry of a valid journal is deleted or moved, the entry that
\* followed it is flagged with a chain break, and every entry before the first
\* disturbed place is reported without any error.
C6_GapFlagsNextEntry ==
    \A p \in Procs :
        (Verifying(p) /\ logs[p] = journal /\ tamper.kind \in {"delete", "reorder"})
        => LET r == Report(p)
           IN  /\ ~r.raised
               /\ tamper.pos < Len(orig) =>
                     orig[tamper.pos + 1].id \in Flagged(r, "rupture_precedent")
               /\ \A i \in 1..(FirstDisturbed - 1) :
                     journal[i].id \notin AnyFlagged(r)
               /\ FirstDisturbed <= Len(journal) =>
                     journal[FirstDisturbed].id \in Flagged(r, "rupture_precedent")

C6_Witness ==
    /\ pc[2] = "verif_d"
    /\ logs[2] = journal
    /\ tamper.kind = "delete"
    /\ tamper.pos = 2
    /\ Len(orig) = 3
    /\ verifier_integrite_detailed(logs[2]).entries[1].status = "ok"
    /\ verifier_integrite_detailed(logs[2]).entries[2].errors = <<"rupture_precedent">>

ReturnsFrom(p) == pc[p] \in LogStates /\ pc'[p] = "idle"

\* C7: a log_action call either persists exactly one journal row and returns
\* True, or persists none and returns False; it always returns, and a row
\* that is not committed is seen by no reader.
C7_AllOrNothing ==
    [][ /\ \A p \in Procs :
            /\ (ReturnsFrom(p) /\ result'[p]) =>
                   /\ staged[p] # <<>>
                   /\ journal' = journal \o staged[p]
            /\ (ReturnsFrom(p) /\ ~result'[p]) => journal' = journal
            /\ pc[p] \in LogStates => pc'[p] \in LogStates \cup {"idle"}
            /\ staged[p] # <<>> =>
                   \A q \in Procs : \A i \in 1..Len(logs[q]) : logs[q][i] # staged[p][1]
        /\ journal' # journal => \E p \in Procs : ReturnsFrom(p) /\ result'[p]
      ]_vars

C7_Witness ==
    /\ Quiet
    /\ faults = 1
    /\ result[1]
    /\ ~result[2]
    /\ Len(journal) = 2

\* C8: no request of the application updates or deletes a journal row: the
\* journal of a state is a prefix of the journal of the next state, and the
\* verification and closure requests leave the journal as it is.
C8_AppendOnly ==
    [][ /\ IsPrefix(journal, journal')
        /\ \A p \in Verifiers : pc'[p] # pc[p] => journal' = journal
        /\ (clotures' # clotures \/ cl_result' # cl_result) => journal' = journal
      ]_vars

C8_Witness ==
    /\ Len(journal) = 3
    /\ clotures # <<>>
    /\ pc[2] = "verif_cl"

\* C9: a verification run that overlaps appends reports on the journal of one
\* instant, a prefix by id of the committed journal, and appends alone never
\* make its verdict invalid.
C9_SnapshotVerdict ==
    \A p \in Procs :
        Verifying(p) => /\ IsPrefix(logs[p], journal)
                        /\ ~Report(p).raised
                        /\ Report(p).valid

\* C10: in every journal state verifier_integrite_detailed gives each entry
\* its error list, holding rupture_precedent, hash_invalide and hmac_invalide
\* each exactly when its own check fails, and both verifiers return valid
\* exactly when no entry failed a check.
C10_FlagsExact ==
    \A p \in Procs :
        Verifying(p) =>
            LET r == Report(p)
            IN  /\ ~r.raised
                /\ \A i \in 1..Len(logs[p]) :
                      LET log == logs[p][i]
                          attendu == IF i = 1 THEN GENESIS_HASH
                                     ELSE logs[p][i - 1].hash_actuel
                      IN  /\ log.id \in Flagged(r, "rupture_precedent")
                                <=> log.hash_precedent # attendu
                          /\ log.id \in Flagged(r, "hash_invalide")
                                <=> log.hash_actuel # calculer_hash(RowCanonical(log))
                          /\ log.id \in Flagged(r, "hmac_invalide")
                                <=> log.signature_hmac # calculer_hmac(RowCanonical(log))
                /\ r.valid <=> AnyFlagged(r) = {}

\* C11: when the stored details text of an entry cannot be parsed, neither
\* verifier aborts: the run returns its report and that entry is flagged in it.
C11_MalformedDetailsReported ==
    \A p \in Procs :
        Verifying(p) =>
            \A i \in 1..Len(logs[p]) :
                ~DetailsLoadable(logs[p][i].details) =>
                    /\ ~Report(p).raised
                    /\ logs[p][i].id \in AnyFlagged(Report(p))

Hashes(rows) == {rows[i].hash_actuel : i \in 1..Len(rows)}

\* C12: no two journal entries ever have the same hash_actuel; an append
\* whose computed hash_actuel is already in the journal does not insert, and
\* the call then returns False with the journal as it was.
C12_UniqueHash ==
    [][ /\ \A i, j \in 1..Len(journal') :
              i # j => journal'[i].hash_actuel # journal'[j].hash_actuel
        /\ \A p \in Procs :
              /\ (pc[p] = "insert" /\ pc'[p] # "insert"
                     /\ NouveauLog(p, journal).hash_actuel \in Hashes(journal))
                 => /\ pc'[p] = "except"
                    /\ staged'[p] = <<>>
                    /\ journal' = journal
              /\ (pc[p] = "except" /\ pc'[p] = "idle")
                 => /\ ~result'[p]
                    /\ journal' = journal
      ]_vars

C12_Witness ==
    \E p \in Procs :
        /\ pc[p] = "except"
        /\ faults = 0
        /\ args[p] # NoArgs
        /\ NouveauLog(p, journal).hash_actuel \in Hashes(journal)


HasCloture(clots, date) == \E i \in 1..Len(clots) : clots[i].date = date

ClotureReturns(p) == pc[p] \in {"cl_query", "cl_insert"} /\ pc'[p] = "idle"

C15_ClotureNamesLastEntry ==
    \A i \in 1..Len(clotures) :
        LET last == DernierLogDuJour(journal, clotures[i].date)
        IN  /\ last # <<>>
            /\ clotures[i].dernier_log_id = last[1].id
            /\ clotures[i].hash_racine = last[1].hash_actuel

C17_LogActionTerminates ==
    /\ \A p \in Loggers : (pc[p] \in LogStates) ~> (pc[p] = "idle")
    /\ [][ \A p \in Procs :
             /\ (pc[p] = "insert" /\ writer \notin {0, p} /\ pc'[p] # "insert")
                => (pc'[p] = "except" /\ staged'[p] = <<>> /\ journal' = journal)
             /\ (pc[p] = "except" /\ pc'[p] # "except")
                => (pc'[p] = "idle" /\ ~result'[p] /\ journal' = journal)
         ]_vars

C17_Witness ==
    /\ pc[1] = "idle"
    /\ ~result[1]
    /\ faults = 1
    /\ writer = 2
    /\ pc[2] = "commit"
    /\ journal = <<>>


\* The details of an event as a map: absent, or the set of its members.
DetailsMap(d) == [absent |-> d.none,
                  members |-> {d.items[i] : i \in 1..Len(d.items)}]

SameEvent(a, b) ==
    /\ a.horodatage = b.horodatage
    /\ a.utilisateur_id = b.utilisateur_id
    /\ a.action = b.action
    /\ a.cible = b.cible
    /\ DetailsMap(a.details) = DetailsMap(b.details)
    /\ a.hash_precedent = b.hash_precedent

\* C18: two events equal in timestamp, utilisateur_id, action, cible, details
\* (as maps, whatever the order of their keys) and hash_precedent get the same
\* canonical string and hash, and two events that differ in any of them, absent
\* details against present but empty details included, get different strings.
C18_CanonicalInjective ==
    enc_out # <<>> =>
        /\ SameEvent(enc_in[1], enc_in[2]) <=> enc_out[1] = enc_out[2]
        /\ SameEvent(enc_in[1], enc_in[2])
              => calculer_hash(enc_out[1]) = calculer_hash(enc_out[2])


\* The handler refused the call, changed no request and no balance, and
\* appended one ACCES_REFUSE entry in the caller's name.
RefusAudite(user) ==
    /\ ~mc_retour'.ok
    /\ demandes' = demandes
    /\ solde' = solde
    /\ Len(journal') = Len(journal) + 1
    /\ SubSeq(journal', 1, Len(journal)) = journal
    /\ journal'[Len(journal')].action = "ACCES_REFUSE"
    /\ journal'[Len(journal')].utilisateur_id = user

VerrouActif(u) ==
    /\ utilisateurs[u].verrouille_jusqu_a # NoLock
    /\ minutes < utilisateurs[u].verrouille_jusqu_a

\* The failed password attempts the journal records for user u since the
\* user's last successful login or automatic lock.
EchecsConsecutifs(u) ==
    LET mine == {i \in 1..Len(journal) : journal[i].utilisateur_id = u}
        resets == {i \in mine : journal[i].action \in
                       {"CONNEXION", "VERROUILLAGE_AUTO_UTILISATEUR"}}
        since == {i \in mine : \A j \in resets : j < i}
    IN  Cardinality({i \in since :
            /\ journal[i].action = "ECHEC_CONNEXION"
            /\ journal[i].details = details_json(
                   DetailsLogin(u, "mot_de_passe_incorrect"))})

RetraitAttendu(montant) ==
    /\ compte_statut = "actif"
    /\ 0 < montant
    /\ montant <= RETRAIT_MAXIMUM
    /\ solde - montant >= SOLDE_MINIMUM_COMPTE

DemandeRefusee ==
    /\ bank_retour'.op \in {"depot", "retrait", "create", "reopen"}
          => ~bank_retour'.ok
    /\ mc_retour'.op = "executer" => ~mc_retour'.ok

C22_ClientInactifRienNePasse ==
    [][client_statut # "actif" =>
          /\ DemandeRefusee
          /\ solde' = solde
          /\ compte_statut' = compte_statut
          /\ autres_comptes' = autres_comptes
          /\ operations' = operations
          /\ Len(demandes') = Len(demandes)
          /\ \A i \in 1..Len(demandes) :
                 demandes'[i].statut = demandes[i].statut]_vars

\* A withdrawal was waiting for approval when the account was emptied and
\* closed and the client deactivated; the other user's approval then failed.
C22_Witness ==
    /\ client_statut # "actif"
    /\ compte_statut = "ferme"
    /\ \E i \in 1..Len(demandes) :
          /\ demandes[i].statut = "PENDING"
          /\ mc_retour = Retour("executer", i, 2, FALSE)
    /\ journal[Len(journal)].action = "DESACTIVATION_CLIENT"

\* C29: the summary of a report with entries counts as broken exactly the
\* entries with a failed check, so that the count is 0 exactly when the
\* report is valid; broken_preview is the first min(5, broken_count) of
\* them, in id order, and broken_remaining counts the others.
EntreesEnEchec(entries) == {i \in 1..Len(entries) : entries[i].errors # <<>>}

Min(a, b) == IF a < b THEN a ELSE b

C29_SummaryKeepsVerdict ==
    chain_out # NoSummary =>
        LET entries == chain_in.entries
            echec == EntreesEnEchec(entries)
        IN  /\ chain_out.n = Len(entries)
            /\ chain_out.n = 0 => chain_in.valid
            /\ chain_out.n >= 1 =>
                  /\ chain_out.broken_count = Cardinality(echec)
                  /\ chain_out.broken_count = 0 <=> chain_in.valid
                  /\ Len(chain_out.broken_preview)
                        = Min(preview_limit, chain_out.broken_count)
                  /\ \A k \in 1..Len(chain_out.broken_preview) :
                        /\ chain_out.broken_preview[k].id \in echec
                        /\ chain_out.broken_preview[k]
                              = entries[chain_out.broken_preview[k].id]
                        /\ Cardinality({i \in echec :
                               i < chain_out.broken_preview[k].id}) = k - 1
                  /\ chain_out.broken_remaining
                        = chain_out.broken_count - Len(chain_out.broken_preview)

\* The summary of a report with more broken entries than the preview holds.
C29_Witness ==
    /\ chain_out # NoSummary
    /\ chain_out.n >= 1
    /\ chain_out.broken_count > preview_limit
    /\ chain_out.broken_remaining >= 1

\* C30: in the summary of a report of n >= 1 entries the segments start with
\* the genesis node and account for every entry exactly once: the 'first',
\* 'broken' and 'daily' segments and the gaps' counts add up to n, no entry
\* index is in two segments, and the entries a gap covers are all ok.
RECURSIVE SommeGaps(_)
SommeGaps(segments) ==
    IF segments = <<>> THEN 0
    ELSE Head(segments).count + SommeGaps(Tail(segments))

\* The index of the last entry shown before position k, -1 if none.
RECURSIVE DernierIdxAvant(_, _)
DernierIdxAvant(segments, k) ==
    IF k = 1 THEN 0 - 1
    ELSE IF segments[k - 1].type \in {"first", "broken", "daily"}
         THEN segments[k - 1].idx
    ELSE DernierIdxAvant(segments, k - 1)

C30_SegmentsCoverOnce ==
    (chain_out # NoSummary /\ chain_out.n >= 1) =>
        LET segments == chain_out.segments
            montres == {k \in 1..Len(segments) :
                           segments[k].type \in {"first", "broken", "daily"}}
        IN  /\ segments[1].type = "genesis"
            /\ Cardinality(montres) + SommeGaps(segments) = chain_out.n
            /\ \A k1, k2 \in montres :
                  segments[k1].idx = segments[k2].idx => k1 = k2
            /\ \A k \in 1..Len(segments) :
                  segments[k].type = "gap" =>
                     \A j \in 1..segments[k].count :
                        chain_in.entries[DernierIdxAvant(segments, k) + j + 1].status
                           = "ok"

\* C23: once a user has made velocity.retrait.max_par_minute successful
\* withdrawals within the current minute, that user's next withdrawal through
\* effectuer_operation within the same minute is refused and leaves the
\* balance as it was.
RetraitsDansLaMinute(user_id) ==
    Cardinality({i \in 1..Len(operations) :
                    /\ operations[i].type_operation = "RETRAIT"
                    /\ operations[i].utilisateur_id = user_id
                    /\ operations[i].date_operation = minutes})

C23_VelocityLimit ==
    [][(/\ RetraitsDansLaMinute(Guichetier) >= velocity_retrait_max_par_minute
        /\ bank_retour'.op = "appel_retrait")
          => (~bank_retour'.ok /\ solde' = solde)]_vars

\* C28: after entries are removed from a valid journal, verifier_integrite
\* finds the journal invalid exactly when the removed entries are not a
\* suffix of the chain: a removed entry with a surviving successor is
\* detected, the removal of the last k entries, all of them included, is not.
Retirees == {i \in 1..Len(orig) :
                \A j \in 1..Len(journal) : journal[j].id # orig[i].id}

EstSuffixe(R) == \A i \in R : \A j \in i..Len(orig) : j \in R

C28_DeletionDetectedIffNotSuffix ==
    \A p \in Procs :
        (/\ pc[p] = "verif"
         /\ logs[p] = journal
         /\ tamper.kind \in {"delete", "deletes"}
         /\ verifier_integrite(orig).valide)
        => LET r == verifier_integrite(logs[p])
           IN  /\ ~r.raised
               /\ r.valide <=> EstSuffixe(Retirees)

\* The last two of three entries were deleted and the verifier found the
\* journal valid.
C28_Witness ==
    /\ pc[2] = "verif"
    /\ logs[2] = journal
    /\ tamper.kind = "deletes"
    /\ Len(orig) = 3
    /\ Len(journal) = 1
    /\ journal[1] = orig[1]
    /\ verifier_integrite(orig).valide
    /\ verifier_integrite(logs[2]).valide

\* C24: when log_action fails inside effectuer_operation, the deposit or
\* withdrawal still takes effect: the call returns success and its Operation
\* row, with the balance it leaves, is among the committed rows.
RetourneApresEchecAudit(p) ==
    /\ op_pc[p] = "commit"
    /\ op_pc'[p] = "idle"
    /\ op_args[p].log = "failed"

C24_AuditFailureNonFatal ==
    [][\A p \in Procs :
         RetourneApresEchecAudit(p) =>
            /\ op_retour'[p] = TRUE
            /\ \E i \in 1..Len(operations') :
                  /\ operations'[i].utilisateur_id = p
                  /\ operations'[i].type_operation = op_args[p].type_op
                  /\ operations'[i].montant = op_args[p].montant
                  /\ operations'[i].solde_avant = op_args[p].solde_avant]_vars

\* C25: a call of log_action neither commits nor rolls back what the calling
\* operation has pending: across the call the balance and the Operation rows
\* in the database are the same and the caller's changes are still pending.
DansLogAction(p) == op_pc[p] \in {"log", "log_insert"} /\ op_pc'[p] = "commit"

C25_LogActionLeavesCallerPending ==
    [][\A p \in Procs :
         DansLogAction(p) =>
            /\ solde' = solde
            /\ operations' = operations
            /\ pending'[p].solde = pending[p].solde
            /\ pending'[p].rows = pending[p].rows]_vars

\* C27: when no call is running and no storage fault occurred, the balance
\* is the opening balance plus the deposits less the withdrawals of the calls
\* that returned success, and every Operation row starts from the balance
\* the row before it left and moves it by its amount.
LignesChainees ==
    \A i \in 1..Len(operations) :
        /\ operations[i].solde_apres
              = operations[i].solde_avant
                  + Signe(operations[i].type_operation, operations[i].montant)
        /\ operations[i].solde_avant
              = (IF i = 1 THEN SoldeInitial ELSE operations[i - 1].solde_apres)

C27_NoLostUpdate ==
    ((\A p \in Procs : op_pc[p] = "idle") /\ faults = 0) =>
        /\ solde = SoldeInitial + op_succes
        /\ LignesChainees

\* C26: whatever the interleaving of the decisions on a request, a request
\* that is APPROVED, REJECTED or CANCELLED never changes status again, and
\* no two calls both succeed on the same request.
Decidee(id) == demandes[id].statut \in {"APPROVED", "REJECTED", "CANCELLED"}

C26_DecidedOnce ==
    [][/\ \A id \in 1..Len(demandes) :
            Decidee(id) => demandes'[id].statut = demandes[id].statut
       /\ ~(/\ dec_retour'[1].ok
            /\ dec_retour'[2].ok
            /\ dec_retour'[1].id = dec_retour'[2].id)]_vars


====
